---- MODULE Spec2Model ----
(***************************************************************************)
(* apidoc2MCP: the Parser Dispatcher (parsers/index.ts), the Normalizer    *)
(* (converters/index.ts) and the Endpoint Compiler (generators/            *)
(* mcp-generator.ts) as state machines over JSON documents.                *)
(*                                                                         *)
(* A JSON value is a tagged tuple, so that values of different JavaScript  *)
(* types can be compared:                                                  *)
(*   <<"u">> undefined, <<"null">> null, <<"s", str>>, <<"n", int>>,       *)
(*   <<"b", bool>>, <<"a", <<v1, ..., vn>> >> an array,                    *)
(*   <<"o", << <<k1, v1>>, ..., <<kn, vn>> >> >> an object, its properties *)
(*   in insertion order (Object.keys / Object.entries order).              *)
(***************************************************************************)
EXTENDS Integers, Sequences, FiniteSets, TLC

VARIABLES
  cache,   \* the cache directory: cache key -> [spec, src]; src is history only
  conv,    \* the last convertToStandardFormat call and what it returned
  gen,     \* the MCPGenerator instance: apiData, endpoints, incompleteEndpoints
  svc,     \* what the last generate() call returned
  readme,  \* the lists of the documentation file last written
  disp,    \* the parseDocument call in progress
  pipe,    \* the MCPPipeline.run call in progress and what the CLI did with it
  inv,     \* the convertToStandardFormat calls of two concurrent invocations
  js       \* the server code last emitted and the last call of one of its tools

vars == <<cache, conv, gen, svc, readme, disp, pipe, inv, js>>

----------------------------------------------------------------------------
(* JavaScript values                                                       *)

Undefined == <<"u">>
Null == <<"null">>
S(s) == <<"s", s>>
N(n) == <<"n", n>>
B(b) == <<"b", b>>
A(elems) == <<"a", elems>>
O(props) == <<"o", props>>

Tag(v) == v[1]

\* typeof v === 'object' && v !== null  (arrays are objects)
IsObject(v) == Tag(v) \in {"o", "a"}

\* Array.isArray(v)
IsArray(v) == Tag(v) = "a"

\* ToBoolean(v): what `!v`, `v || d` and `if (v)` test
Truthy(v) ==
  CASE Tag(v) = "u" -> FALSE
    [] Tag(v) = "null" -> FALSE
    [] Tag(v) = "s" -> v[2] # ""
    [] Tag(v) = "n" -> v[2] # 0
    [] Tag(v) = "b" -> v[2]
    [] OTHER -> TRUE

\* a || b
Or(a, b) == IF Truthy(a) THEN a ELSE b

\* the elements of an array (of anything else: none)
Elems(v) == IF Tag(v) = "a" THEN v[2] ELSE <<>>

\* Object.entries(v) of an object
Entries(v) == IF Tag(v) = "o" THEN v[2] ELSE <<>>

\* Object.keys(v) of an object, in order
Keys(v) == [i \in 1..Len(Entries(v)) |-> Entries(v)[i][1]]

\* k in v
Has(v, k) == \E i \in 1..Len(Entries(v)) : Entries(v)[i][1] = k

\* v.k  (undefined when absent; the documents enumerated below never make the
\* code dereference null or undefined)
Get(v, k) ==
  IF Has(v, k)
  THEN Entries(v)[CHOOSE i \in 1..Len(Entries(v)) : Entries(v)[i][1] = k][2]
  ELSE Undefined

\* v.k = x, and {...v, k: x}: an existing key keeps its place
Put(v, k, x) ==
  IF Has(v, k)
  THEN O([i \in 1..Len(Entries(v)) |->
            IF Entries(v)[i][1] = k THEN <<k, x>> ELSE Entries(v)[i]])
  ELSE O(Append(Entries(v), <<k, x>>))

\* delete v.k
Del(v, k) == O(SelectSeq(Entries(v), LAMBDA p : p[1] # k))

----------------------------------------------------------------------------
(* Strings, character by character                                         *)

CharAt(s, i) == SubSeq(s, i, i)

StartsWith(s, p) == Len(s) >= Len(p) /\ SubSeq(s, 1, Len(p)) = p

UpperLetters == <<"A", "B", "C", "D", "E", "F", "G", "H", "I", "J", "K", "L", "M",
                  "N", "O", "P", "Q", "R", "S", "T", "U", "V", "W", "X", "Y", "Z">>
LowerLetters == <<"a", "b", "c", "d", "e", "f", "g", "h", "i", "j", "k", "l", "m",
                  "n", "o", "p", "q", "r", "s", "t", "u", "v", "w", "x", "y", "z">>

LowerChar(c) ==
  IF \E i \in 1..Len(UpperLetters) : UpperLetters[i] = c
  THEN LowerLetters[CHOOSE i \in 1..Len(UpperLetters) : UpperLetters[i] = c]
  ELSE c

UpperChar(c) ==
  IF \E i \in 1..Len(LowerLetters) : LowerLetters[i] = c
  THEN UpperLetters[CHOOSE i \in 1..Len(LowerLetters) : LowerLetters[i] = c]
  ELSE c

RECURSIVE toLowerCase(_)
toLowerCase(s) ==
  IF Len(s) = 0 THEN ""
  ELSE LowerChar(CharAt(s, 1)) \o toLowerCase(SubSeq(s, 2, Len(s)))

RECURSIVE toUpperCase(_)
toUpperCase(s) ==
  IF Len(s) = 0 THEN ""
  ELSE UpperChar(CharAt(s, 1)) \o toUpperCase(SubSeq(s, 2, Len(s)))

IsDigits(s) ==
  /\ Len(s) > 0
  /\ \A i \in 1..Len(s) : CharAt(s, i) \in {"0", "1", "2", "3", "4", "5", "6", "7", "8", "9"}

\* String(v) of a string, a number or a boolean; of an object '[object Object]'
StringOf(v) ==
  CASE Tag(v) = "s" -> v[2]
    [] Tag(v) = "n" -> ToString(v[2])
    [] Tag(v) = "b" -> IF v[2] THEN "true" ELSE "false"
    [] Tag(v) = "u" -> "undefined"
    [] Tag(v) = "null" -> "null"
    [] OTHER -> "[object Object]"

----------------------------------------------------------------------------
(* Normalizer: converters/index.ts                                         *)

\* Object.keys(apiData): the property names of an object, the indices of an
\* array or of a string, nothing for a number or a boolean
ObjectKeys(v) ==
  CASE Tag(v) = "o" -> {Entries(v)[i][1] : i \in 1..Len(Entries(v))}
    [] Tag(v) = "a" -> {ToString(i - 1) : i \in 1..Len(v[2])}
    [] Tag(v) = "s" -> {ToString(i - 1) : i \in 1..Len(v[2])}
    [] OTHER -> {}

\* JSON.stringify(v, list) with an array replacer: `list` is the property list,
\* and it filters the properties of EVERY object of the tree, nested ones too;
\* array elements are all kept. The text lists an object's properties in the
\* order of the (sorted) list, so two texts made with the same list are equal
\* iff the filtered trees are: the text is modelled by the filtered tree, an
\* object being the function from its kept keys to their texts.
RECURSIVE stringify(_, _)
stringify(v, list) ==
  CASE Tag(v) = "o" ->
         <<"o", [k \in {q \in ObjectKeys(v) : q \in list /\ Get(v, q) # Undefined} |->
                   stringify(Get(v, k), list)]>>
    [] Tag(v) = "a" -> <<"a", [i \in 1..Len(v[2]) |-> stringify(v[2][i], list)]>>
    [] OTHER -> v

\* JSON.stringify(v, Object.keys(v).sort()) of generateCacheKey, kept apart so
\* that the serialisation can be told from the digest
cacheKeyText(apiData) == stringify(apiData, ObjectKeys(apiData))

\* generateCacheKey: the MD5 digest of the text (the digest is taken to be
\* injective; parsed JSON/YAML documents always serialise, so the String()
\* fallback of the catch is not taken)
generateCacheKey(apiData) == <<"md5", cacheKeyText(apiData)>>

\* detectFormat of the Normalizer
detectFormat(apiData) ==
  IF ~IsObject(apiData) THEN "unstructured"
  ELSE IF Has(apiData, "openapi") /\ StartsWith(StringOf(Get(apiData, "openapi")), "3.")
  THEN "openapi"
  ELSE IF Has(apiData, "swagger") /\ Get(apiData, "swagger") = S("2.0")
  THEN "swagger"
  ELSE IF Has(apiData, "endpoints") /\ IsArray(Get(apiData, "endpoints"))
  THEN "custom"
  ELSE "unstructured"

HttpMethods == <<"get", "post", "put", "delete", "patch", "options", "head">>

\* the requestBody a Swagger body parameter becomes
SwaggerRequestBody(param) ==
  O(<< <<"content",
         O(<< <<"application/json",
                O(<< <<"schema", Or(Get(param, "schema"), O(<<>>))>> >>)>> >>)>>,
       <<"required", Or(Get(param, "required"), B(FALSE))>> >>)

\* the parameter loop of one operation: acc.parameters is the local array,
\* acc.op is openapiData.paths[path][method] (undefined until a body parameter
\* sets it)
RECURSIVE SwaggerParamLoop(_, _, _, _)
SwaggerParamLoop(operation, params, i, acc) ==
  IF i > Len(params) THEN acc
  ELSE IF Get(params[i], "in") # S("body")
  THEN SwaggerParamLoop(operation, params, i + 1,
                        [acc EXCEPT !.parameters = Append(@, params[i])])
  ELSE SwaggerParamLoop(operation, params, i + 1,
                        [acc EXCEPT !.op = Put(operation, "requestBody",
                                               SwaggerRequestBody(params[i]))])

\* a conversion that adds the requestBody but leaves the parameters array of
\* the operation as it was
SwaggerOperation_KeepsParameters(operation) ==
  LET acc == SwaggerParamLoop(operation,
                              Elems(Or(Get(operation, "parameters"), A(<<>>))), 1,
                              [parameters |-> <<>>, op |-> Undefined])
  IN IF ~Truthy(acc.op) THEN operation ELSE acc.op

\* one operation of convertSwaggerToOpenapi
SwaggerOperation(operation) ==
  LET acc == SwaggerParamLoop(operation,
                              Elems(Or(Get(operation, "parameters"), A(<<>>))), 1,
                              [parameters |-> <<>>, op |-> Undefined])
      set == IF ~Truthy(acc.op)
             THEN Put(operation, "parameters", A(acc.parameters))
             ELSE Put(acc.op, "parameters", A(acc.parameters))
  IN IF Has(operation, "parameters") /\ Len(acc.parameters) = 0
     THEN Del(set, "parameters")
     ELSE set

\* the method loop over one path item
RECURSIVE SwaggerPathItem(_, _, _)
SwaggerPathItem(pathObj, m, out) ==
  IF m > Len(HttpMethods) THEN out
  ELSE IF Has(pathObj, HttpMethods[m])
  THEN SwaggerPathItem(pathObj, m + 1,
                       Put(out, HttpMethods[m], SwaggerOperation(Get(pathObj, HttpMethods[m]))))
  ELSE SwaggerPathItem(pathObj, m + 1, out)

RECURSIVE SwaggerPaths(_, _, _)
SwaggerPaths(entries, i, out) ==
  IF i > Len(entries) THEN out
  ELSE SwaggerPaths(entries, i + 1,
                    Put(out, entries[i][1], SwaggerPathItem(entries[i][2], 1, O(<<>>))))

convertSwaggerToOpenapi(swaggerData) ==
  O(<< <<"openapi", S("3.0.0")>>,
       <<"info", Or(Get(swaggerData, "info"),
                    O(<< <<"title", S("API")>>, <<"version", S("1.0.0")>> >>))>>,
       <<"paths", SwaggerPaths(Entries(Or(Get(swaggerData, "paths"), O(<<>>))), 1, O(<<>>))>>,
       <<"components",
         O(<< <<"schemas", Or(Get(swaggerData, "definitions"), O(<<>>))>>,
              <<"parameters", Or(Get(swaggerData, "parameters"), O(<<>>))>>,
              <<"responses", Or(Get(swaggerData, "responses"), O(<<>>))>> >>)>> >>)

\* one parameter of a custom endpoint, with its defaults
CustomParameter(param) ==
  O(<< <<"name", Or(Get(param, "name"), S(""))>>,
       <<"in", Or(Get(param, "in"), S("query"))>>,
       <<"description", Or(Get(param, "description"), S(""))>>,
       <<"required", Or(Get(param, "required"), B(FALSE))>>,
       <<"schema", Or(Get(param, "schema"), O(<< <<"type", S("string")>> >>))>> >>)

\* the responses loop of a custom endpoint
RECURSIVE CustomResponses(_, _, _)
CustomResponses(responses, i, out) ==
  IF i > Len(responses) THEN out
  ELSE LET response == responses[i]
           statusCode == StringOf(Or(Get(response, "status_code"), S("200")))
           content == IF Truthy(Get(response, "content_type"))
                      THEN O(<< <<StringOf(Get(response, "content_type")),
                                  O(<< <<"schema", Or(Get(response, "schema"), O(<<>>))>> >>)>> >>)
                      ELSE O(<<>>)
       IN CustomResponses(responses, i + 1,
                          Put(out, statusCode,
                              O(<< <<"description", Or(Get(response, "description"), S("Response"))>>,
                                   <<"content", content>> >>)))

\* the operation object one custom endpoint becomes
CustomOperation(endpoint) ==
  LET params == Elems(Or(Get(endpoint, "parameters"), A(<<>>)))
      base == O(<< <<"summary", Or(Get(endpoint, "summary"), S(""))>>,
                   <<"description", Or(Get(endpoint, "description"), S(""))>>,
                   <<"operationId", Or(Get(endpoint, "operationId"), S(""))>>,
                   <<"parameters", A([i \in 1..Len(params) |-> CustomParameter(params[i])])>>,
                   <<"responses",
                     O(<< <<"200", O(<< <<"description", S("Successful operation")>>,
                                        <<"content", O(<<>>)>> >>)>> >>)>> >>)
      rb == Get(endpoint, "requestBody")
      withBody ==
        IF Truthy(rb)
        THEN Put(base, "requestBody",
                 O(<< <<"content",
                        O(<< <<StringOf(Or(Get(rb, "content_type"), S("application/json"))),
                               O(<< <<"schema", Or(Get(rb, "schema"), O(<<>>))>> >>)>> >>)>>,
                      <<"required", Or(Get(rb, "required"), B(FALSE))>> >>))
        ELSE base
      responses == Elems(Get(endpoint, "responses"))
  IN IF Truthy(Get(endpoint, "responses")) /\ Len(responses) > 0
     THEN Put(withBody, "responses", CustomResponses(responses, 1, O(<<>>)))
     ELSE withBody

\* the endpoint loop of convertCustomToOpenapi: `paths` is openapiData.paths
RECURSIVE CustomPaths(_, _, _)
CustomPaths(endpoints, i, paths) ==
  IF i > Len(endpoints) THEN paths
  ELSE LET endpoint == endpoints[i]
           path == Get(endpoint, "path")
           method == toLowerCase(StringOf(Or(Get(endpoint, "method"), S("get"))))
       IN IF ~Truthy(path)
          THEN CustomPaths(endpoints, i + 1, paths)
          ELSE LET item == IF ~Truthy(Get(paths, StringOf(path)))
                           THEN O(<<>>)
                           ELSE Get(paths, StringOf(path))
               IN CustomPaths(endpoints, i + 1,
                              Put(paths, StringOf(path),
                                  Put(item, method, CustomOperation(endpoint))))

convertCustomToOpenapi(customData) ==
  O(<< <<"openapi", S("3.0.0")>>,
       <<"info", O(<< <<"title", Or(Get(customData, "title"), S("API"))>>,
                      <<"version", Or(Get(customData, "version"), S("1.0.0"))>>,
                      <<"description", Or(Get(customData, "description"), S(""))>> >>)>>,
       <<"paths", CustomPaths(Elems(Or(Get(customData, "endpoints"), A(<<>>))), 1, O(<<>>))>> >>)

markUnstructuredAsTodo(unstructuredData) ==
  O(<< <<"openapi", S("3.0.0")>>,
       <<"info", O(<< <<"title", S("Unstructured API")>>,
                      <<"version", S("1.0.0")>>,
                      <<"description",
                        S("This API was parsed from unstructured data and requires further processing.")>> >>)>>,
       <<"paths", O(<<>>)>>,
       <<"x-unstructured-data", unstructuredData>> >>)

\* the endpoint loop of convertToOpenapiGeneric
RECURSIVE GenericPaths(_, _, _)
GenericPaths(endpoints, i, paths) ==
  IF i > Len(endpoints) THEN paths
  ELSE LET endpoint == endpoints[i]
           path == Get(endpoint, "path")
           method == toLowerCase(StringOf(Or(Get(endpoint, "method"), S("get"))))
       IN IF ~Truthy(path)
          THEN GenericPaths(endpoints, i + 1, paths)
          ELSE LET item == IF ~Truthy(Get(paths, StringOf(path)))
                           THEN O(<<>>)
                           ELSE Get(paths, StringOf(path))
                   op == O(<< <<"summary", Or(Or(Get(endpoint, "summary"), Get(endpoint, "title")), S(""))>>,
                              <<"description", Or(Get(endpoint, "description"), S(""))>>,
                              <<"parameters", Or(Get(endpoint, "parameters"), A(<<>>))>> >>)
               IN GenericPaths(endpoints, i + 1,
                               Put(paths, StringOf(path), Put(item, method, op)))

convertToOpenapiGeneric(unknownData) ==
  LET title == IF Has(unknownData, "title") THEN Get(unknownData, "title")
               ELSE IF Has(unknownData, "name") THEN Get(unknownData, "name")
               ELSE S("Generic API")
      version == IF Has(unknownData, "version") THEN Get(unknownData, "version")
                 ELSE S("1.0.0")
      info0 == O(<< <<"title", title>>, <<"version", version>> >>)
      info == IF Has(unknownData, "description")
              THEN Put(info0, "description", Get(unknownData, "description"))
              ELSE info0
      paths == IF Has(unknownData, "paths") /\ (IsObject(Get(unknownData, "paths"))
                                               \/ Get(unknownData, "paths") = Null)
               THEN Get(unknownData, "paths")
               ELSE IF Has(unknownData, "endpoints") /\ IsArray(Get(unknownData, "endpoints"))
               THEN GenericPaths(Elems(Get(unknownData, "endpoints")), 1, O(<<>>))
               ELSE O(<<>>)
  IN IF IsObject(unknownData)
     THEN O(<< <<"openapi", S("3.0.0")>>, <<"info", info>>, <<"paths", paths>> >>)
     ELSE O(<< <<"openapi", S("3.0.0")>>,
               <<"info", O(<< <<"title", S("Generic API")>>, <<"version", S("1.0.0")>> >>)>>,
               <<"paths", O(<<>>)>> >>)

\* /^3\.\d+\.\d+$/ on the text of openapiData.openapi
MatchesVersion3(s) ==
  /\ StartsWith(s, "3.")
  /\ \E j \in 4..(Len(s) - 1) :
       /\ CharAt(s, j) = "."
       /\ IsDigits(SubSeq(s, 3, j - 1))
       /\ IsDigits(SubSeq(s, j + 1, Len(s)))

\* a validation that accepts any version string
validateOpenapi_AnyVersion(openapiData) ==
  IF ~IsObject(openapiData) THEN FALSE
  ELSE IF \/ ~Truthy(Get(openapiData, "openapi"))
          \/ ~Truthy(Get(openapiData, "info"))
          \/ ~Truthy(Get(openapiData, "paths"))
  THEN FALSE
  ELSE IF \/ ~Truthy(Get(Get(openapiData, "info"), "title"))
          \/ ~Truthy(Get(Get(openapiData, "info"), "version"))
  THEN FALSE
  ELSE TRUE

validateOpenapi(openapiData) ==
  IF ~IsObject(openapiData) THEN FALSE
  ELSE IF \/ ~Truthy(Get(openapiData, "openapi"))
          \/ ~Truthy(Get(openapiData, "info"))
          \/ ~Truthy(Get(openapiData, "paths"))
  THEN FALSE
  ELSE IF ~MatchesVersion3(StringOf(Get(openapiData, "openapi"))) THEN FALSE
  ELSE IF \/ ~Truthy(Get(Get(openapiData, "info"), "title"))
          \/ ~Truthy(Get(Get(openapiData, "info"), "version"))
  THEN FALSE
  ELSE TRUE

\* the branch of convertToStandardFormat on the detected format
convertByFormat(dataFormat, apiData) ==
  CASE dataFormat = "openapi" -> apiData
    [] dataFormat = "swagger" -> convertSwaggerToOpenapi(apiData)
    [] dataFormat = "custom" -> convertCustomToOpenapi(apiData)
    [] dataFormat = "unstructured" -> markUnstructuredAsTodo(apiData)
    [] OTHER -> convertToOpenapiGeneric(apiData)

----------------------------------------------------------------------------
(* Endpoint Compiler: generators/mcp-generator.ts                          *)

\* one declared parameter as extractEndpointsFromOpenapi copies it
ExtractParameter(param) ==
  O(<< <<"name", Or(Get(param, "name"), S(""))>>,
       <<"in", Or(Get(param, "in"), S(""))>>,
       <<"description", Or(Get(param, "description"), S(""))>>,
       <<"required", Or(Get(param, "required"), B(FALSE))>>,
       <<"schema", Or(Get(param, "schema"), O(<< <<"type", S("string")>> >>))>> >>)

\* content[contentType]?.schema || {} of a requestBody or a response, with
\* contentType = Object.keys(content)[0] || dflt
FirstContentType(content, dflt) ==
  IF Len(Keys(content)) > 0 /\ Keys(content)[1] # "" THEN Keys(content)[1] ELSE dflt

ContentSchema(content, dflt) ==
  Or(Get(Get(content, FirstContentType(content, dflt)), "schema"), O(<<>>))

\* the synthetic body parameters of an object-typed request body schema
BodyPropertyParameters(schema) ==
  LET props == Entries(Get(schema, "properties"))
      requiredProps == Elems(Or(Get(schema, "required"), A(<<>>)))
  IN [i \in 1..Len(props) |->
        O(<< <<"name", S(props[i][1])>>,
             <<"in", S("body")>>,
             <<"description", Or(Get(props[i][2], "description"), S(""))>>,
             <<"required", B(\E j \in 1..Len(requiredProps) : requiredProps[j] = S(props[i][1]))>>,
             <<"schema", props[i][2]>> >>)]

\* the responses of an operation, flattened per status code
ExtractResponses(operation) ==
  LET rs == Entries(Or(Get(operation, "responses"), O(<<>>)))
  IN [i \in 1..Len(rs) |->
        LET content == Or(Get(rs[i][2], "content"), O(<<>>))
        IN O(<< <<"status_code", S(rs[i][1])>>,
                <<"description", Or(Get(rs[i][2], "description"), S(""))>>,
                <<"content_type", S(FirstContentType(content, ""))>>,
                <<"schema", ContentSchema(content, "")>> >>)]

\* the Endpoint built for paths[path][method]
ExtractEndpoint(path, method, operation) ==
  LET declared == IF Truthy(Get(operation, "parameters"))
                  THEN [i \in 1..Len(Elems(Get(operation, "parameters"))) |->
                          ExtractParameter(Elems(Get(operation, "parameters"))[i])]
                  ELSE <<>>
      content == Or(Get(Get(operation, "requestBody"), "content"), O(<<>>))
      schema == ContentSchema(content, "application/json")
      bodyParams == IF /\ Has(operation, "requestBody")
                       /\ Get(schema, "type") = S("object")
                       /\ Has(schema, "properties")
                    THEN BodyPropertyParameters(schema)
                    ELSE <<>>
      head == O(<< <<"path", S(path)>>,
                   <<"method", S(method)>>,
                   <<"operationId", Or(Get(operation, "operationId"), S(""))>>,
                   <<"summary", Or(Get(operation, "summary"), S(""))>>,
                   <<"description", Or(Get(operation, "description"), S(""))>>,
                   <<"parameters", A(declared \o bodyParams)>> >>)
      withBody == IF Has(operation, "requestBody")
                  THEN Put(head, "requestBody",
                           O(<< <<"content_type", S(FirstContentType(content, "application/json"))>>,
                                <<"required", Or(Get(Get(operation, "requestBody"), "required"), B(FALSE))>>,
                                <<"schema", schema>> >>))
                  ELSE head
  IN Put(withBody, "responses", A(ExtractResponses(operation)))

RECURSIVE ExtractPathItem(_, _, _)
ExtractPathItem(path, pathObj, m) ==
  IF m > Len(HttpMethods) THEN <<>>
  ELSE (IF Has(pathObj, HttpMethods[m])
        THEN <<ExtractEndpoint(path, HttpMethods[m], Get(pathObj, HttpMethods[m]))>>
        ELSE <<>>) \o ExtractPathItem(path, pathObj, m + 1)

RECURSIVE ExtractPaths(_, _)
ExtractPaths(entries, i) ==
  IF i > Len(entries) THEN <<>>
  ELSE ExtractPathItem(entries[i][1], entries[i][2], 1) \o ExtractPaths(entries, i + 1)

extractEndpointsFromOpenapi(apiData) ==
  IF Has(apiData, "endpoints") /\ IsArray(Get(apiData, "endpoints"))
  THEN Elems(Get(apiData, "endpoints"))
  ELSE ExtractPaths(Entries(Or(Get(apiData, "paths"), O(<<>>))), 1)

\* validMethods.includes(endpoint.method.toLowerCase())
IsValidMethod(method) ==
  \E m \in 1..Len(HttpMethods) : HttpMethods[m] = toLowerCase(StringOf(method))

\* a validation that does not look at the location of a parameter
validateEndpoint_IgnoresLocation(endpoint) ==
  IF ~Truthy(Get(endpoint, "path")) THEN FALSE
  ELSE IF ~Truthy(Get(endpoint, "method")) \/ ~IsValidMethod(Get(endpoint, "method"))
  THEN FALSE
  ELSE IF /\ Truthy(Get(endpoint, "parameters"))
          /\ \E i \in 1..Len(Elems(Get(endpoint, "parameters"))) :
               ~Truthy(Get(Elems(Get(endpoint, "parameters"))[i], "name"))
  THEN FALSE
  ELSE TRUE

validateEndpoint(endpoint) ==
  IF ~Truthy(Get(endpoint, "path")) THEN FALSE
  ELSE IF ~Truthy(Get(endpoint, "method")) \/ ~IsValidMethod(Get(endpoint, "method"))
  THEN FALSE
  ELSE IF ~Truthy(Get(endpoint, "operationId")) /\ ~Truthy(Get(endpoint, "path"))
  THEN FALSE
  ELSE IF /\ Truthy(Get(endpoint, "parameters"))
          /\ \E i \in 1..Len(Elems(Get(endpoint, "parameters"))) :
               \/ ~Truthy(Get(Elems(Get(endpoint, "parameters"))[i], "name"))
               \/ ~Truthy(Get(Elems(Get(endpoint, "parameters"))[i], "in"))
  THEN FALSE
  ELSE TRUE

getIncompletenessReason(endpoint) ==
  IF ~Truthy(Get(endpoint, "path")) THEN "Missing path"
  ELSE IF ~Truthy(Get(endpoint, "method")) \/ ~IsValidMethod(Get(endpoint, "method"))
  THEN "Invalid or missing HTTP method"
  ELSE IF ~Truthy(Get(endpoint, "operationId")) /\ ~Truthy(Get(endpoint, "path"))
  THEN "Missing operationId and insufficient info to generate one"
  ELSE IF /\ Truthy(Get(endpoint, "parameters"))
          /\ \E i \in 1..Len(Elems(Get(endpoint, "parameters"))) :
               \/ ~Truthy(Get(Elems(Get(endpoint, "parameters"))[i], "name"))
               \/ ~Truthy(Get(Elems(Get(endpoint, "parameters"))[i], "in"))
  THEN "Invalid parameter definition (missing name or location)"
  ELSE "Unknown incompleteness reason"

\* the first index >= i of character c in s, or 0
RECURSIVE IndexOfFrom(_, _, _)
IndexOfFrom(s, c, i) ==
  IF i > Len(s) THEN 0
  ELSE IF CharAt(s, i) = c THEN i
  ELSE IndexOfFrom(s, c, i + 1)

\* the successive matches of /{([^}]+)}/g in path from index i, as
\* <<first, last>> index pairs: a '{' matches when the next '}' is at least
\* two places after it
RECURSIVE ParamTokens(_, _)
ParamTokens(path, i) ==
  LET p == IndexOfFrom(path, "{", i)
      q == IndexOfFrom(path, "}", p + 1)
  IN IF p = 0 \/ q = 0 THEN <<>>
     ELSE IF q = p + 1 THEN ParamTokens(path, p + 1)
     ELSE <<<<p, q>>>> \o ParamTokens(path, q + 1)

\* path.replace(/{[^}]+}/g, '')
RECURSIVE CutTokens(_, _, _)
CutTokens(path, tokens, from) ==
  IF Len(tokens) = 0 THEN SubSeq(path, from, Len(path))
  ELSE SubSeq(path, from, tokens[1][1] - 1)
         \o CutTokens(path, Tail(tokens), tokens[1][2] + 1)

\* s.split('/').filter(s => s.length > 0)
RECURSIVE SplitSegments(_, _)
SplitSegments(s, from) ==
  LET p == IndexOfFrom(s, "/", from)
      seg == SubSeq(s, from, (IF p = 0 THEN Len(s) ELSE p - 1))
      rest == IF p = 0 THEN <<>> ELSE SplitSegments(s, p + 1)
  IN IF from > Len(s) THEN <<>>
     ELSE IF Len(seg) > 0 THEN <<seg>> \o rest ELSE rest

RECURSIVE CamelAppend(_, _)
CamelAppend(segments, i) ==
  IF i > Len(segments) THEN ""
  ELSE toUpperCase(CharAt(segments[i], 1)) \o SubSeq(segments[i], 2, Len(segments[i]))
         \o CamelAppend(segments, i + 1)

\* an operation id made from the path with its {param} tokens left in
generateOperationId_KeepsTokens(endpoint) ==
  LET path == StringOf(Get(endpoint, "path"))
      method == toLowerCase(StringOf(Get(endpoint, "method")))
      segments == SplitSegments(path, 1)
  IN IF Len(segments) = 0 THEN method \o "Root"
     ELSE method \o CamelAppend(segments, 1)

generateOperationId(endpoint) ==
  LET path == StringOf(Get(endpoint, "path"))
      method == toLowerCase(StringOf(Get(endpoint, "method")))
      segments == SplitSegments(CutTokens(path, ParamTokens(path, 1), 1), 1)
  IN IF Len(segments) = 0 THEN method \o "Root"
     ELSE method \o CamelAppend(segments, 1)

getJsonSchemaType(apiType) ==
  LET t == toLowerCase(apiType)
  IN CASE t \in {"integer", "number"} -> "number"
       [] t = "boolean" -> "boolean"
       [] t = "array" -> "array"
       [] t = "object" -> "object"
       [] OTHER -> "string"

\* pass 1 of createParameters: the {name} tokens of the path
RECURSIVE PathParameters(_, _, _)
PathParameters(path, tokens, parameters) ==
  IF Len(tokens) = 0 THEN parameters
  ELSE LET paramName == SubSeq(path, tokens[1][1] + 1, tokens[1][2] - 1)
       IN PathParameters(path, Tail(tokens),
                         Put(parameters, paramName,
                             O(<< <<"type", S("string")>>,
                                  <<"description", S("Path parameter: " \o paramName)>>,
                                  <<"required", B(TRUE)>> >>)))

\* a parameter-map entry, with its enum when the schema has one
ParameterEntry(type, description, required, schema) ==
  LET entry == O(<< <<"type", S(type)>>,
                    <<"description", description>>,
                    <<"required", B(required)>> >>)
  IN IF Truthy(Get(schema, "enum")) THEN Put(entry, "enum", Get(schema, "enum")) ELSE entry

\* pass 2 of createParameters: the declared parameters
RECURSIVE DeclaredParameters(_, _, _, _)
DeclaredParameters(endpoint, params, i, parameters) ==
  IF i > Len(params) THEN parameters
  ELSE LET param == params[i]
           name == StringOf(Get(param, "name"))
       IN IF /\ Get(param, "in") # S("path")
             /\ ~(Get(param, "in") = S("body") /\ Truthy(Get(endpoint, "requestBody")))
          THEN DeclaredParameters(endpoint, params, i + 1,
                 Put(parameters, name,
                     ParameterEntry(
                       getJsonSchemaType(StringOf(Or(Get(Get(param, "schema"), "type"), S("string")))),
                       Or(Get(param, "description"),
                          S(StringOf(Get(param, "in")) \o " parameter: " \o name)),
                       Truthy(Get(param, "required")),
                       Get(param, "schema"))))
          ELSE DeclaredParameters(endpoint, params, i + 1, parameters)

\* pass 3 of createParameters: the properties of the request body schema
RECURSIVE BodyParameters(_, _, _, _)
BodyParameters(props, requiredProps, i, parameters) ==
  IF i > Len(props) THEN parameters
  ELSE LET propName == props[i][1]
           schema == props[i][2]
       IN BodyParameters(props, requiredProps, i + 1,
            Put(parameters, propName,
                ParameterEntry(
                  getJsonSchemaType(StringOf(Or(Get(schema, "type"), S("string")))),
                  Or(Get(schema, "description"), S("Request body property: " \o propName)),
                  \E j \in 1..Len(requiredProps) : requiredProps[j] = S(propName),
                  schema)))

\* a parameter map built with the requestBody properties before the declared
\* parameters
createParameters_BodyBeforeDeclared(endpoint) ==
  LET path == StringOf(Get(endpoint, "path"))
      p1 == PathParameters(path, ParamTokens(path, 1), O(<<>>))
      bodySchema == Get(Get(endpoint, "requestBody"), "schema")
      p2 == IF /\ Truthy(Get(endpoint, "requestBody"))
               /\ Truthy(bodySchema)
               /\ Truthy(Get(bodySchema, "properties"))
            THEN BodyParameters(Entries(Get(bodySchema, "properties")),
                                Elems(Or(Get(bodySchema, "required"), A(<<>>))), 1, p1)
            ELSE p1
  IN IF Truthy(Get(endpoint, "parameters"))
     THEN DeclaredParameters(endpoint, Elems(Get(endpoint, "parameters")), 1, p2)
     ELSE p2

createParameters(endpoint) ==
  LET path == StringOf(Get(endpoint, "path"))
      p1 == PathParameters(path, ParamTokens(path, 1), O(<<>>))
      p2 == IF Truthy(Get(endpoint, "parameters"))
            THEN DeclaredParameters(endpoint, Elems(Get(endpoint, "parameters")), 1, p1)
            ELSE p1
      bodySchema == Get(Get(endpoint, "requestBody"), "schema")
  IN IF /\ Truthy(Get(endpoint, "requestBody"))
        /\ Truthy(bodySchema)
        /\ Truthy(Get(bodySchema, "properties"))
     THEN BodyParameters(Entries(Get(bodySchema, "properties")),
                         Elems(Or(Get(bodySchema, "required"), A(<<>>))), 1, p2)
     ELSE p2

\* endpoint.responses.find(r => r.status_code.startsWith('2')) || endpoint.responses[0]
SuccessResponse(responses) ==
  IF \E i \in 1..Len(responses) : StartsWith(StringOf(Get(responses[i], "status_code")), "2")
  THEN responses[CHOOSE i \in 1..Len(responses) :
                   /\ StartsWith(StringOf(Get(responses[i], "status_code")), "2")
                   /\ \A j \in 1..(i - 1) :
                        ~StartsWith(StringOf(Get(responses[j], "status_code")), "2")]
  ELSE responses[1]

createFunction(endpoint) ==
  LET operationId == Or(Get(endpoint, "operationId"), S(generateOperationId(endpoint)))
      func == O(<< <<"name", operationId>>,
                   <<"description",
                     Or(Or(Get(endpoint, "description"), Get(endpoint, "summary")),
                        S(toUpperCase(StringOf(Get(endpoint, "method"))) \o " "
                            \o StringOf(Get(endpoint, "path"))))>>,
                   <<"parameters", createParameters(endpoint)>> >>)
      responses == Elems(Get(endpoint, "responses"))
  IN IF /\ Truthy(Get(endpoint, "responses"))
        /\ Len(responses) > 0
        /\ Truthy(Get(SuccessResponse(responses), "schema"))
     THEN Put(func, "response", Get(SuccessResponse(responses), "schema"))
     ELSE func

\* a loop that gives up at the first incomplete endpoint
RECURSIVE GenerateLoop_StopsAtIncomplete(_, _, _)
GenerateLoop_StopsAtIncomplete(endpoints, i, acc) ==
  IF i > Len(endpoints) THEN acc
  ELSE IF validateEndpoint(endpoints[i])
  THEN GenerateLoop_StopsAtIncomplete(endpoints, i + 1,
                    [acc EXCEPT !.functions = Append(@, createFunction(endpoints[i]))])
  ELSE [acc EXCEPT !.incomplete = Append(@, endpoints[i])]

\* the loop of generate(): acc.functions is mcpService.functions, acc.incomplete
\* is this.incompleteEndpoints
RECURSIVE GenerateLoop(_, _, _)
GenerateLoop(endpoints, i, acc) ==
  IF i > Len(endpoints) THEN acc
  ELSE IF validateEndpoint(endpoints[i])
  THEN GenerateLoop(endpoints, i + 1,
                    [acc EXCEPT !.functions = Append(@, createFunction(endpoints[i]))])
  ELSE GenerateLoop(endpoints, i + 1,
                    [acc EXCEPT !.incomplete = Append(@, endpoints[i])])

\* the guards the emitted code puts on the parameters it copies into a map:
\* `!== undefined` for a required parameter, truthiness for any other
ToolGuards(params) ==
  [i \in 1..Len(params) |->
     [name |-> StringOf(Get(params[i], "name")),
      test |-> IF Truthy(Get(params[i], "required")) THEN "defined" ELSE "truthy"]]

\* endpoint.parameters.filter(p => p.in === location)
ParametersIn(endpoint, location) ==
  SelectSeq(Elems(Get(endpoint, "parameters")), LAMBDA p : Get(p, "in") = S(location))

\* generateToolCode(endpoint, operationId, path): the tool the emitted code
\* registers. schema is the zod shape, query and data are the guarded copies
\* into queryParams and requestData, sendsParams and sendsData tell whether
\* the axios call has `params: queryParams` and `data: requestData`
generateToolCode(endpoint, operationId) ==
  LET toolParams == createParameters(endpoint)
      method == toLowerCase(StringOf(Get(endpoint, "method")))
      queryParams == ParametersIn(endpoint, "query")
      bodyParams == ParametersIn(endpoint, "body")
      tool == [name |-> operationId, method |-> toUpperCase(method), schema |-> toolParams,
               query |-> <<>>, data |-> <<>>, sendsParams |-> FALSE, sendsData |-> FALSE]
  IN IF method \in {"get", "delete"}
     THEN [tool EXCEPT !.query = ToolGuards(queryParams),
                       !.sendsParams = Len(queryParams) > 0]
     ELSE IF Truthy(Get(endpoint, "requestBody"))
     THEN [tool EXCEPT !.data = IF Len(bodyParams) > 0 THEN ToolGuards(bodyParams)
                                ELSE [k \in 1..Len(Keys(toolParams)) |->
                                        [name |-> Keys(toolParams)[k], test |-> "truthy"]],
                       !.sendsData = TRUE,
                       !.query = ToolGuards(queryParams),
                       !.sendsParams = Len(queryParams) > 0]
     ELSE tool

\* the endpoint loop of generateJsCode, from i on
RECURSIVE ToolCodes(_, _)
ToolCodes(endpoints, i) ==
  IF i > Len(endpoints) THEN <<>>
  ELSE (IF ~validateEndpoint(endpoints[i]) THEN <<>>
        ELSE <<generateToolCode(endpoints[i],
                                Or(Get(endpoints[i], "operationId"),
                                   S(generateOperationId(endpoints[i]))))>>)
         \o ToolCodes(endpoints, i + 1)

\* the entries a guarded copy leaves in its map when the handler runs on params
RECURSIVE GuardedCopy(_, _, _)
GuardedCopy(guards, params, i) ==
  IF i > Len(guards) THEN O(<<>>)
  ELSE LET value == Get(params, guards[i].name)
           rest == GuardedCopy(guards, params, i + 1)
       IN IF (guards[i].test = "defined" /\ value # Undefined)
              \/ (guards[i].test = "truthy" /\ Truthy(value))
          THEN O(<< <<guards[i].name, value>> >> \o Entries(Del(rest, guards[i].name)))
          ELSE rest

\* the axios request the handler of tool makes on params
ToolRequest(tool, params) ==
  [method |-> tool.method,
   params |-> IF tool.sendsParams THEN GuardedCopy(tool.query, params, 1) ELSE Undefined,
   data |-> IF tool.sendsData THEN GuardedCopy(tool.data, params, 1) ELSE Undefined]

\* the values zod lets through for a parameter of a type
ArgumentValues(type) ==
  CASE type = "number" -> {N(0), N(5)}
    [] type = "boolean" -> {B(FALSE), B(TRUE)}
    [] type = "string" -> {S(""), S("x")}
    [] OTHER -> {O(<<>>)}

\* the params objects the zod shape of a tool accepts, from entry i on: a
\* required parameter is present, an optional one may be absent
RECURSIVE ToolArguments(_, _)
ToolArguments(schema, i) ==
  IF i > Len(Entries(schema)) THEN {<<>>}
  ELSE LET name == Entries(schema)[i][1]
           def == Entries(schema)[i][2]
           rest == ToolArguments(schema, i + 1)
       IN {<< <<name, v>> >> \o r : v \in ArgumentValues(StringOf(Get(def, "type"))), r \in rest}
            \cup (IF Truthy(Get(def, "required")) THEN {} ELSE rest)

----------------------------------------------------------------------------
(* The raw documents the parsers hand to the Normalizer                    *)

OrderSchema ==
  O(<< <<"type", S("object")>>,
       <<"properties", O(<< <<"qty", O(<< <<"type", S("integer")>> >>)>> >>)>>,
       <<"required", A(<<S("qty")>>)>> >>)

ParamId ==
  O(<< <<"name", S("id")>>, <<"in", S("path")>>, <<"required", B(TRUE)>>,
       <<"schema", O(<< <<"type", S("integer")>> >>)>> >>)

ParamLimit ==
  O(<< <<"name", S("limit")>>, <<"in", S("query")>>,
       <<"schema", O(<< <<"type", S("integer")>> >>)>> >>)

ParamQtyQuery ==
  O(<< <<"name", S("qty")>>, <<"in", S("query")>>,
       <<"schema", O(<< <<"type", S("boolean")>> >>)>> >>)

ParamToken == O(<< <<"name", S("token")>>, <<"in", S("header")>>, <<"required", B(TRUE)>> >>)

\* a parameter without `in`
ParamNoIn == O(<< <<"name", S("q")>> >>)

\* a parameter without `name`
ParamNoName == O(<< <<"in", S("query")>> >>)

ParamBody ==
  O(<< <<"name", S("body")>>, <<"in", S("body")>>, <<"required", B(TRUE)>>,
       <<"schema", OrderSchema>> >>)

ParamBodyNoSchema == O(<< <<"name", S("body")>>, <<"in", S("body")>> >>)

OkResponses == O(<< <<"200", O(<< <<"description", S("ok")>> >>)>> >>)

OpenapiDoc(version, title, paths) ==
  O(<< <<"openapi", S(version)>>,
       <<"info", O(<< <<"title", S(title)>>, <<"version", S("1.0.0")>> >>)>>,
       <<"paths", paths>> >>)

SwaggerDoc(paths) ==
  O(<< <<"swagger", S("2.0")>>,
       <<"info", O(<< <<"title", S("Orders")>>, <<"version", S("1.0.0")>> >>)>>,
       <<"paths", paths>> >>)

Operation(parameters) == O(<< <<"parameters", A(parameters)>>, <<"responses", OkResponses>> >>)

\* GET /users/{id} with the declared path parameter id (integer, required)
UsersPaths == O(<< <<"/users/{id}", O(<< <<"get", Operation(<<ParamId>>)>> >>)>> >>)

\* GET /search whose only parameter has no `in`
SearchPaths == O(<< <<"/search", O(<< <<"get", Operation(<<ParamNoIn>>)>> >>)>> >>)

\* POST /orders/{qty} with a query parameter and a body property both named
\* qty, and GET /items/{limit} with a query parameter named limit
CollidePaths ==
  O(<< <<"/orders/{qty}",
         O(<< <<"post",
                O(<< <<"parameters", A(<<ParamQtyQuery, ParamLimit>>)>>,
                     <<"requestBody",
                       O(<< <<"content",
                              O(<< <<"application/json",
                                     O(<< <<"schema", OrderSchema>> >>)>> >>)>> >>)>> >>)>> >>)>>,
       <<"/items/{limit}", O(<< <<"get", Operation(<<ParamLimit>>)>> >>)>> >>)

\* scenario A: one GET /users/{id} operation, path parameter id (integer, required)
ScenarioA == OpenapiDoc("3.0.0", "Users", UsersPaths)

\* scenario B: a Swagger POST /orders whose single parameter is the body
ScenarioB ==
  SwaggerDoc(O(<< <<"/orders", O(<< <<"post", O(<< <<"parameters", A(<<ParamBody>>)>> >>)>> >>)>> >>))

OpenapiDocuments ==
  { ScenarioA,
    OpenapiDoc("3.0.0", "Accounts", UsersPaths),
    OpenapiDoc("3.0.0", "Users", SearchPaths),
    OpenapiDoc("3.0.0", "Users", CollidePaths),
    OpenapiDoc("3.0.0", "Users", O(<<>>)),
    OpenapiDoc("3.1", "Users", UsersPaths) }

SwaggerDocuments ==
  { ScenarioB,
    SwaggerDoc(O(<< <<"/orders",
                      O(<< <<"post", Operation(<<ParamLimit, ParamBody, ParamToken>>)>>,
                           <<"get", Operation(<<ParamLimit>>)>> >>)>> >>)),
    SwaggerDoc(O(<< <<"/orders",
                      O(<< <<"put", Operation(<<ParamBodyNoSchema>>)>>,
                           <<"delete", O(<< <<"responses", OkResponses>> >>)>> >>)>>,
                    <<"/search", O(<< <<"get", Operation(<<ParamNoIn>>)>> >>)>> >>)) }

CustomDocuments ==
  { O(<< <<"title", S("Search")>>,
         <<"endpoints",
           A(<< O(<< <<"path", S("/search")>>, <<"method", S("GET")>>,
                     <<"parameters", A(<<ParamNoIn>>)>> >>) >>)>> >>),
    O(<< <<"endpoints",
           A(<< O(<< <<"path", S("/users")>>, <<"method", S("get")>>,
                     <<"operationId", S("listUsers")>> >>),
                O(<< <<"method", S("post")>> >>),
                O(<< <<"path", S("/users")>>, <<"method", S("POST")>>,
                     <<"parameters", A(<<ParamNoName>>)>>,
                     <<"requestBody", O(<< <<"schema", OrderSchema>> >>)>>,
                     <<"responses",
                       A(<< O(<< <<"status_code", S("201")>>,
                                 <<"content_type", S("application/json")>> >>) >>)>> >>) >>)>> >>),
    O(<< <<"title", S("Pets")>>,
         <<"endpoints",
           A(<< O(<< <<"path", S("/pets")>>, <<"method", S("GET")>>,
                     <<"summary", S("List the pets")>> >>),
                O(<< <<"path", S("/pets")>>, <<"method", S("get")>>,
                     <<"summary", S("Find pets by tag")>>,
                     <<"parameters", A(<<ParamLimit>>)>> >>),
                O(<< <<"path", S("/pets")>>, <<"method", S("TRACE")>> >>) >>)>> >>) }

UnstructuredDocuments ==
  { S("GET /users returns the users"),
    O(<< <<"name", S("Notes")>>, <<"paths", UsersPaths>> >>),
    Undefined, Null, N(0), S(""), B(FALSE) }

RawDocuments ==
  OpenapiDocuments \cup SwaggerDocuments \cup CustomDocuments \cup UnstructuredDocuments

----------------------------------------------------------------------------
(* Parser Dispatcher: parsers/index.ts and the parser classes              *)

EndsWith(s, suffix) ==
  Len(s) >= Len(suffix) /\ SubSeq(s, Len(s) - Len(suffix) + 1, Len(s)) = suffix

\* s.includes(sub)
Includes(s, sub) ==
  \E i \in 1..(Len(s) - Len(sub) + 1) : SubSeq(s, i, i + Len(sub) - 1) = sub

\* inputPath.startsWith('http://') || inputPath.startsWith('https://')
IsUrl(inputPath) == StartsWith(inputPath, "http://") \/ StartsWith(inputPath, "https://")

\* the outcome of one awaited read (fs.readFile, axios.get, axios.head)
IoFailure(name) == [ok |-> FALSE, error |-> name, data |-> Undefined]
IoSuccess(data) == [ok |-> TRUE, error |-> "", data |-> data]

\* the outcome of a step that returns a value or throws
Returns(value) == [raised |-> FALSE, error |-> "", value |-> value]
Throws(name) == [raised |-> TRUE, error |-> name, value |-> Undefined]

SwaggerText == "{\"swagger\": \"2.0\", \"paths\": {\"/orders\": {}}}"
OpenapiText == "{\"openapi\": \"3.0.0\", \"paths\": {}}"
OpenapiNumberText == "{\"openapi\": 3, \"paths\": {}}"
EndpointsText == "{\"endpoints\": []}"
TitleText == "{\"title\": \"Notes\"}"
UsersText ==
  "{\"openapi\": \"3.0.0\", \"info\": {\"title\": \"Users\", \"version\": \"1.0.0\"}, "
    \o "\"paths\": {\"/users/{id}\": {\"get\": {\"parameters\": [{\"name\": \"id\", "
    \o "\"in\": \"path\", \"required\": true, \"schema\": {\"type\": \"integer\"}}], "
    \o "\"responses\": {\"200\": {\"description\": \"ok\"}}}}}}"
MixedText ==
  "{\"swagger\": \"2.0\", \"info\": {\"title\": \"Orders\", \"version\": \"1.0.0\"}, "
    \o "\"paths\": {\"/orders\": {\"get\": {\"parameters\": [{\"name\": \"limit\", "
    \o "\"in\": \"query\", \"schema\": {\"type\": \"integer\"}}], "
    \o "\"responses\": {\"200\": {\"description\": \"ok\"}}}}, "
    \o "\"/search\": {\"get\": {\"parameters\": [{\"name\": \"q\"}], "
    \o "\"responses\": {\"200\": {\"description\": \"ok\"}}}}}}"

\* the texts a file or a response body holds
Texts ==
  {SwaggerText, OpenapiText, OpenapiNumberText, EndpointsText, TitleText,
   UsersText, MixedText, "null", "[]", "# Notes", "Hello", "{"}

\* the value a text denotes, for the texts that are JSON
JsonValue(text) ==
  CASE text = SwaggerText ->
         O(<< <<"swagger", S("2.0")>>, <<"paths", O(<< <<"/orders", O(<<>>)>> >>)>> >>)
    [] text = OpenapiText -> O(<< <<"openapi", S("3.0.0")>>, <<"paths", O(<<>>)>> >>)
    [] text = OpenapiNumberText -> O(<< <<"openapi", N(3)>>, <<"paths", O(<<>>)>> >>)
    [] text = EndpointsText -> O(<< <<"endpoints", A(<<>>)>> >>)
    [] text = TitleText -> O(<< <<"title", S("Notes")>> >>)
    [] text = UsersText -> ScenarioA
    [] text = MixedText ->
         SwaggerDoc(O(<< <<"/orders", O(<< <<"get", Operation(<<ParamLimit>>)>> >>)>>,
                         <<"/search", O(<< <<"get", Operation(<<ParamNoIn>>)>> >>)>> >>))
    [] text = "null" -> Null
    [] text = "[]" -> A(<<>>)

IsJson(text) ==
  text \in {SwaggerText, OpenapiText, OpenapiNumberText, EndpointsText, TitleText,
            UsersText, MixedText, "null", "[]"}

\* String(content), which JSON.parse and yaml.load apply to what is not a string
TextOf(content) ==
  IF Tag(content) = "a"
  THEN (IF Len(Elems(content)) = 0 THEN "" ELSE "[object Object]")
  ELSE StringOf(content)

\* JSON.parse(content)
JSONparse(content) ==
  IF IsJson(TextOf(content)) THEN Returns(JsonValue(TextOf(content))) ELSE Throws("SyntaxError")

\* yaml.load(content): JSON is YAML; a comment or nothing loads as undefined,
\* a plain scalar as a string, '[object Object]' as a flow sequence
yamlLoad(content) ==
  LET text == TextOf(content)
  IN CASE IsJson(text) -> Returns(JsonValue(text))
       [] text \in {"# Notes", ""} -> Returns(Undefined)
       [] text = "Hello" -> Returns(S("Hello"))
       [] text = "[object Object]" -> Returns(A(<<S("object Object")>>))
       [] OTHER -> Throws("YAMLException")

\* typeof content === 'object'
TypeofObject(content) == Tag(content) \in {"o", "a", "null"}

\* the 'Parse JSON or YAML' step of SwaggerParser and OpenAPIParser
ParseContent(inputPath, content) ==
  IF EndsWith(toLowerCase(inputPath), ".json") THEN JSONparse(content) ELSE yamlLoad(content)

\* SwaggerParser.parse(inputPath); io is the outcome of its read of inputPath
SwaggerParser_parse(inputPath, io) ==
  IF ~io.ok THEN Throws(io.error)
  ELSE IF IsUrl(inputPath) /\ TypeofObject(io.data) THEN Returns(io.data)
  ELSE LET data == ParseContent(inputPath, io.data)
       IN IF data.raised THEN data
          ELSE IF Tag(data.value) \in {"u", "null"} THEN Throws("TypeError")
          ELSE Returns(data.value)

\* OpenAPIParser.parse(inputPath)
OpenAPIParser_parse(inputPath, io) ==
  IF ~io.ok THEN Throws(io.error)
  ELSE IF IsUrl(inputPath) /\ TypeofObject(io.data) THEN Returns(io.data)
  ELSE LET data == ParseContent(inputPath, io.data)
           openapi == Get(data.value, "openapi")
       IN IF data.raised THEN data
          ELSE IF Tag(data.value) \in {"u", "null"} THEN Throws("TypeError")
          ELSE IF Truthy(openapi) /\ Tag(openapi) # "s" THEN Throws("TypeError")
          ELSE Returns(data.value)

\* the structure MarkdownParser and CrawlerParser return
MinimalStructure(title, description) ==
  O(<< <<"info", O(<< <<"title", S(title)>>, <<"version", S("1.0.0")>>,
                      <<"description", S(description)>> >>)>>,
       <<"paths", O(<<>>)>>,
       <<"endpoints", A(<<>>)>> >>)

\* MarkdownParser.parse(inputPath)
MarkdownParser_parse(inputPath, io) ==
  IF ~io.ok THEN Throws(io.error)
  ELSE Returns(MinimalStructure("Markdown API", "API parsed from Markdown"))

\* CrawlerParser.parse(inputPath)
CrawlerParser_parse(inputPath, io) ==
  IF ~io.ok THEN Throws(io.error)
  ELSE Returns(MinimalStructure("Crawled API", "API parsed by crawler"))

\* parser.parse(inputPath) for an instance of ParserClass; an Object has no
\* parse method, and the call throws
Parse(ParserClass, inputPath, io) ==
  CASE ParserClass = "SwaggerParser" -> SwaggerParser_parse(inputPath, io)
    [] ParserClass = "OpenAPIParser" -> OpenAPIParser_parse(inputPath, io)
    [] ParserClass = "MarkdownParser" -> MarkdownParser_parse(inputPath, io)
    [] ParserClass = "CrawlerParser" -> CrawlerParser_parse(inputPath, io)
    [] OTHER -> Throws("TypeError")

\* the swagger/openapi inspection of loaded data; `in` throws on what is not
\* an object, startsWith on what is not a string
InspectData(data) ==
  IF ~IsObject(data) THEN Throws("TypeError")
  ELSE IF Has(data, "swagger") /\ Get(data, "swagger") = S("2.0") THEN Returns(S("swagger"))
  ELSE IF Has(data, "openapi")
  THEN (IF Tag(Get(data, "openapi")) = "s" THEN Returns(S("openapi")) ELSE Throws("TypeError"))
  ELSE Returns(S("openapi"))

\* a try block whose catch lets the error through
Catch_Rethrows(outcome, dflt) == outcome

\* try { ... } catch { return dflt }
Catch(outcome, dflt) == IF outcome.raised THEN Returns(S(dflt)) ELSE outcome

\* the try block of the .json/.yaml/.yml branch: load the content, parse it
\* by the extension, inspect the data
DetectByContent(inputPath, body) ==
  LET data == IF EndsWith(toLowerCase(inputPath), ".json")
              THEN JSONparse(body.data)
              ELSE yamlLoad(body.data)
  IN IF ~body.ok THEN Throws(body.error)
     ELSE IF data.raised THEN data
     ELSE InspectData(data.value)

\* the try block of the bare-URL branch: the probe, then by content type; a
\* content type that is none of the three leaves the block without a return
DetectByProbe(head, body) ==
  LET contentType == StringOf(Or(head.data, S("")))
  IN IF ~head.ok THEN Throws(head.error)
     ELSE IF Includes(contentType, "json")
     THEN (IF ~body.ok THEN Throws(body.error) ELSE InspectData(body.data))
     ELSE IF Includes(contentType, "text/html") THEN Returns(S("html"))
     ELSE IF Includes(contentType, "text/markdown") THEN Returns(S("markdown"))
     ELSE Returns(S("crawler"))

\* detectFormat(inputPath) of the Dispatcher, as what it returns or throws.
\* head: the outcome of axios.head (its data is the content-type header);
\* body: the outcome of reading the content
parsers_detectFormat(inputPath, head, body) ==
  LET lower == toLowerCase(inputPath)
  IN IF EndsWith(lower, ".json") \/ EndsWith(lower, ".yaml") \/ EndsWith(lower, ".yml")
     THEN Catch(DetectByContent(inputPath, body), "openapi")
     ELSE IF EndsWith(lower, ".md") THEN Returns(S("markdown"))
     ELSE IF EndsWith(lower, ".html") \/ EndsWith(lower, ".htm") THEN Returns(S("html"))
     ELSE IF IsUrl(inputPath) THEN Catch(DetectByProbe(head, body), "crawler")
     ELSE Returns(S("crawler"))

\* whether detectFormat(inputPath) probes the headers, and whether it reads
\* the content
ReadsHead(inputPath) ==
  LET lower == toLowerCase(inputPath)
  IN /\ IsUrl(inputPath)
     /\ \A ext \in {".json", ".yaml", ".yml", ".md", ".html", ".htm"} : ~EndsWith(lower, ext)

ReadsBody(inputPath, head) ==
  LET lower == toLowerCase(inputPath)
  IN \/ \E ext \in {".json", ".yaml", ".yml"} : EndsWith(lower, ext)
     \/ /\ ReadsHead(inputPath)
        /\ head.ok
        /\ Includes(StringOf(Or(head.data, S(""))), "json")

\* parserMap
parserMap ==
  [swagger |-> "SwaggerParser", openapi |-> "OpenAPIParser", markdown |-> "MarkdownParser",
   html |-> "CrawlerParser", crawler |-> "CrawlerParser"]

\* what `formatType in parserMap` also finds, on Object.prototype, and what
\* `new` makes of it: Object is a constructor, toString is not
InheritedKeys == {"constructor", "toString"}

\* parserMap[formatType] for a formatType that is `in` parserMap
ParserClassOf(formatType) ==
  IF formatType \in DOMAIN parserMap THEN parserMap[formatType]
  ELSE IF formatType = "constructor" THEN "Object"
  ELSE "toString"

\* result && ((typeof result === 'object' && ('paths' in result ||
\* 'endpoints' in result)) || (Array.isArray(result) && result.length > 0))
IsUsable(result) ==
  /\ Truthy(result)
  /\ \/ IsObject(result) /\ (Has(result, "paths") \/ Has(result, "endpoints"))
     \/ IsArray(result) /\ Len(Elems(result)) > 0

\* crawlerResult && 'paths' in crawlerResult &&
\* Object.keys(crawlerResult.paths).length > 0
IsCrawlerSuccess(crawlerResult) ==
  /\ Truthy(crawlerResult)
  /\ Has(crawlerResult, "paths")
  /\ ObjectKeys(Get(crawlerResult, "paths")) # {}

----------------------------------------------------------------------------
(* Endpoint lists                                                          *)

\* the endpoints handed to a Compiler built on the intermediate {endpoints} shape
EndpointOf(path, method, operationId, parameters, requestBody) ==
  O(<< <<"path", path>>, <<"method", method>>, <<"operationId", operationId>>,
       <<"parameters", parameters>>, <<"requestBody", requestBody>>,
       <<"responses", A(<< O(<< <<"status_code", S("200")>>, <<"schema", O(<<>>)>> >>) >>)>> >>)

EndpointBody ==
  O(<< <<"content_type", S("application/json")>>, <<"required", B(TRUE)>>,
       <<"schema", OrderSchema>> >>)

Endpoints ==
  { EndpointOf(path, method, operationId, parameters, requestBody) :
      path \in {Undefined, S(""), S("/users/{id}")},
      method \in {Undefined, S("get"), S("POST"), S("trace")},
      operationId \in {Undefined, S("listUsers")},
      parameters \in {Undefined, A(<<>>), A(<<ParamLimit>>), A(<<ParamNoIn>>),
                      A(<<ParamNoName, ParamLimit>>), A(<<ParamId, ParamToken>>)},
      requestBody \in {Undefined, EndpointBody} }

\* three complete and three incomplete endpoints, for the endpoint lists
EndpointPool ==
  { EndpointOf(S("/users"), S("get"), S("listUsers"), A(<<ParamLimit>>), Undefined),
    EndpointOf(S("/users/{id}"), S("GET"), Undefined, A(<<ParamId>>), Undefined),
    EndpointOf(S("/orders"), S("post"), Undefined, Undefined, EndpointBody),
    EndpointOf(Undefined, S("get"), S("listUsers"), Undefined, Undefined),
    EndpointOf(S("/users"), S("trace"), Undefined, A(<<ParamNoIn>>), Undefined),
    EndpointOf(S("/search"), S("get"), Undefined, A(<<ParamLimit, ParamNoIn>>), Undefined) }

\* paths for generateOperationId, on endpoints that have no operationId
OperationIdPaths ==
  {"/", "/{id}", "/{a}{b}", "/users/{id}/orders", "//users//", "users",
   "/api/v1/user-list", "/Users/{id}.json", "/users{id}/x", "/1st"}

OperationIdEndpoints ==
  { EndpointOf(S(path), S(method), Undefined, Undefined, Undefined) :
      path \in OperationIdPaths, method \in {"get", "DELETE"} }

\* a required query parameter
ParamPage ==
  O(<< <<"name", S("page")>>, <<"in", S("query")>>, <<"required", B(TRUE)>>,
       <<"schema", O(<< <<"type", S("integer")>> >>)>> >>)

\* endpoints for the emitted request code: query and body parameters, with
\* and without a requestBody, on GET, POST and PUT
ToolEndpoints ==
  { EndpointOf(S("/orders"), S(method), Undefined, A(parameters), requestBody) :
      method \in {"get", "post", "PUT"},
      parameters \in {<<ParamPage>>, <<ParamPage, ParamBody>>, <<ParamLimit, ParamToken>>},
      requestBody \in {Undefined, EndpointBody} }

\* GET /users and GET /users/{id}, both without operationId
UsersEndpoints ==
  << EndpointOf(S("/users"), S("get"), Undefined, Undefined, Undefined),
     EndpointOf(S("/users/{id}"), S("get"), Undefined, A(<<ParamId>>), Undefined) >>

\* the longest endpoint list drawn from EndpointPool
MaxEndpoints == 2

RECURSIVE ListsUpTo(_, _)
ListsUpTo(pool, n) ==
  IF n = 0 THEN {<<>>}
  ELSE ListsUpTo(pool, n - 1)
         \cup {Append(l, e) : l \in {q \in ListsUpTo(pool, n - 1) : Len(q) = n - 1}, e \in pool}

EndpointLists ==
  {<<e>> : e \in Endpoints \cup OperationIdEndpoints \cup ToolEndpoints}
    \cup {UsersEndpoints}
    \cup ListsUpTo(EndpointPool, MaxEndpoints)

----------------------------------------------------------------------------
(* State machine                                                           *)

NoCall ==
  [doc |-> Undefined, key |-> <<"none">>, hit |-> FALSE, format |-> "none",
   result |-> Undefined, n |-> 0]

NoGenerator ==
  [made |-> FALSE, apiData |-> Undefined, endpoints |-> <<>>,
   incompleteEndpoints |-> <<>>, calls |-> 0]

NoService == [made |-> FALSE, functions |-> <<>>]

NoReadme == [made |-> FALSE, functions |-> <<>>, unimplemented |-> <<>>]

NoError == [name |-> "", by |-> 0]

\* a read that the call did not make
NotRead == [ok |-> FALSE, error |-> "not read", data |-> Undefined]

NoParse ==
  [pc |-> "idle", inputPath |-> "", declared |-> "", head |-> NotRead, body |-> NotRead,
   detected |-> Undefined, formatType |-> "", calls |-> <<>>,
   outcomes |-> <<>>, result |-> Undefined, error |-> NoError, out |-> Undefined]

\* no server code emitted; returned is what generateJsCode returned, called
\* is the index of the tool last called
NoRequest == [method |-> "", params |-> Undefined, data |-> Undefined]
NoCode ==
  [made |-> FALSE, returned |-> "none", tools |-> <<>>, called |-> 0, args |-> Undefined,
   request |-> NoRequest]

\* the metrics of a new MCPPipeline; a time is modelled by whether run set it
NoMetrics ==
  [parseTime |-> FALSE, convertTime |-> FALSE, generateTime |-> FALSE, totalTime |-> FALSE,
   endpointsCount |-> 0, incompleteEndpoints |-> 0]

\* no run in progress; caught is the stage whose error a catch logged; exit is
\* -1 until the CLI calls process.exit
NoRun ==
  [pc |-> "idle", caught |-> "", serviceName |-> Undefined, apiData |-> Undefined,
   standardFormat |-> Undefined, convN |-> 0, success |-> FALSE, outputDir |-> Null,
   metrics |-> NoMetrics, exit |-> -1]

\* the locators and the format arguments of parseDocument
InputPaths ==
  {"api.json", "API.YAML", "guide.md", "page.HTML", "notes.txt",
   "http://h/api.json", "https://h/api"}

FormatTypes ==
  {"auto", "swagger", "openapi", "markdown", "html", "crawler", "SWAGGER"} \cup InheritedKeys

\* what a read of inputPath can give: a file is text; a response is text or,
\* when axios decoded it, a value
IoOutcomes(inputPath) ==
  {IoFailure(IF IsUrl(inputPath) THEN "AxiosError" ELSE "ENOENT")}
    \cup {IoSuccess(S(text)) : text \in Texts}
    \cup (IF IsUrl(inputPath)
          THEN {IoSuccess(JsonValue(text)) :
                  text \in {SwaggerText, OpenapiNumberText, TitleText, UsersText, "null", "[]"}}
                 \cup {IoSuccess(A(<<O(<< <<"path", S("/users")>> >>)>>))}
          ELSE {})

\* what the read of a parser of class ParserClass can give: CrawlerParser
\* fetches inputPath with axios.get whatever it is, and ignores the content
ReadOutcomes(ParserClass, inputPath) ==
  IF ParserClass = "CrawlerParser"
  THEN {IoFailure("AxiosError"), IoSuccess(S("Hello"))}
  ELSE IoOutcomes(inputPath)

\* what axios.head can give: a failure, or the content-type header
HeadOutcomes ==
  {IoFailure("AxiosError")}
    \cup {IoSuccess(contentType) :
            contentType \in {S("application/json; charset=utf-8"), S("text/html"),
                             S("text/markdown"), S("image/png"), Undefined}}

\* the conversions of one behaviour
MaxConversions == 3

\* the generate() calls made on one MCPGenerator
MaxGenerateCalls == 2

\* a conversion that writes its input, not its result, to the cache file
convertToStandardFormat_CachesInput(apiData, readOk, writeOk) ==
  /\ conv.n < MaxConversions
  /\ gen' = NoGenerator
  /\ svc' = NoService
  /\ readme' = NoReadme
  /\ UNCHANGED <<disp, pipe, inv, js>>
  /\ IF ~Truthy(apiData)
     THEN /\ conv' = [NoCall EXCEPT !.doc = apiData, !.result = Null, !.n = conv.n + 1]
          /\ UNCHANGED cache
     ELSE LET cacheKey == generateCacheKey(apiData)
              dataFormat == detectFormat(apiData)
              result == convertByFormat(dataFormat, apiData)
          IN IF cacheKey \in DOMAIN cache /\ readOk
             THEN /\ conv' = [doc |-> apiData, key |-> cacheKey, hit |-> TRUE,
                              format |-> "none", result |-> cache[cacheKey].spec,
                              n |-> conv.n + 1]
                  /\ UNCHANGED cache
             ELSE /\ conv' = [doc |-> apiData, key |-> cacheKey, hit |-> FALSE,
                              format |-> dataFormat, result |-> result, n |-> conv.n + 1]
                  /\ cache' = IF validateOpenapi(result) /\ writeOk
                              THEN [k \in DOMAIN cache \cup {cacheKey} |->
                                      IF k = cacheKey
                                      THEN [spec |-> apiData, src |-> apiData]
                                      ELSE cache[k]]
                              ELSE cache

\* convertToStandardFormat(apiData). readOk: fs.readJson of an existing cache
\* file succeeds; writeOk: fs.writeJson succeeds.
convertToStandardFormat(apiData, readOk, writeOk) ==
  /\ conv.n < MaxConversions
  /\ gen' = NoGenerator
  /\ svc' = NoService
  /\ readme' = NoReadme
  /\ UNCHANGED <<disp, pipe, inv, js>>
  /\ IF ~Truthy(apiData)
     THEN /\ conv' = [NoCall EXCEPT !.doc = apiData, !.result = Null, !.n = conv.n + 1]
          /\ UNCHANGED cache
     ELSE LET cacheKey == generateCacheKey(apiData)
              dataFormat == detectFormat(apiData)
              result == convertByFormat(dataFormat, apiData)
          IN IF cacheKey \in DOMAIN cache /\ readOk
             THEN /\ conv' = [doc |-> apiData, key |-> cacheKey, hit |-> TRUE,
                              format |-> "none", result |-> cache[cacheKey].spec,
                              n |-> conv.n + 1]
                  /\ UNCHANGED cache
             ELSE /\ conv' = [doc |-> apiData, key |-> cacheKey, hit |-> FALSE,
                              format |-> dataFormat, result |-> result, n |-> conv.n + 1]
                  /\ cache' = IF validateOpenapi(result) /\ writeOk
                              THEN [k \in DOMAIN cache \cup {cacheKey} |->
                                      IF k = cacheKey
                                      THEN [spec |-> result, src |-> apiData]
                                      ELSE cache[k]]
                              ELSE cache

Convert == \E d \in RawDocuments, readOk, writeOk \in BOOLEAN :
             convertToStandardFormat(d, readOk, writeOk)

\* new MCPGenerator(apiData)
MCPGenerator(apiData) ==
  [made |-> TRUE, apiData |-> apiData,
   endpoints |-> extractEndpointsFromOpenapi(apiData),
   incompleteEndpoints |-> <<>>, calls |-> 0]

\* the Compiler is built on what the Normalizer returned, when it is not null
NewGenerator ==
  /\ conv.n > 0
  /\ Truthy(conv.result)
  /\ ~gen.made
  /\ gen' = MCPGenerator(conv.result)
  /\ UNCHANGED <<cache, conv, svc, readme, disp, pipe, inv, js>>

\* the Compiler built directly on an {endpoints} document
NewGeneratorFromEndpoints ==
  /\ ~gen.made
  /\ \E list \in EndpointLists : gen' = MCPGenerator(O(<< <<"endpoints", A(list)>> >>))
  /\ UNCHANGED <<cache, conv, svc, readme, disp, pipe, inv, js>>

\* generator.generate()
generate ==
  /\ gen.made
  /\ gen.calls < MaxGenerateCalls
  /\ LET acc == GenerateLoop(gen.endpoints, 1,
                             [functions |-> <<>>, incomplete |-> gen.incompleteEndpoints])
     IN /\ svc' = [made |-> TRUE, functions |-> acc.functions]
        /\ gen' = [gen EXCEPT !.incompleteEndpoints = acc.incomplete, !.calls = @ + 1]
  /\ UNCHANGED <<cache, conv, readme, disp, pipe, inv, js>>

\* a documentation that lists every endpoint, valid or not
RECURSIVE DocFunctions_ListsEveryEndpoint(_, _)
DocFunctions_ListsEveryEndpoint(endpoints, i) ==
  IF i > Len(endpoints) THEN <<>>
  ELSE <<Or(Get(endpoints[i], "operationId"), S(generateOperationId(endpoints[i])))>>
         \o DocFunctions_ListsEveryEndpoint(endpoints, i + 1)

\* the '### operationId' headings of the Available Functions section
RECURSIVE DocFunctions(_, _)
DocFunctions(endpoints, i) ==
  IF i > Len(endpoints) THEN <<>>
  ELSE (IF ~validateEndpoint(endpoints[i]) THEN <<>>
        ELSE <<Or(Get(endpoints[i], "operationId"), S(generateOperationId(endpoints[i])))>>)
         \o DocFunctions(endpoints, i + 1)

\* the bullets of the Unimplemented Endpoints section
DocUnimplemented(incompleteEndpoints) ==
  [i \in 1..Len(incompleteEndpoints) |->
     [label |-> toUpperCase(StringOf(Or(Get(incompleteEndpoints[i], "method"), S("unknown"))))
                  \o " " \o StringOf(Or(Get(incompleteEndpoints[i], "path"), S("unknown path"))),
      reason |-> getIncompletenessReason(incompleteEndpoints[i])]]

\* generateDocumentation(apiData, generator, docPath): generateMcpService calls
\* it on its own generator, after its one generate() call returned a function
generateDocumentation ==
  /\ svc.made
  /\ gen.calls = 1
  /\ Len(svc.functions) > 0
  /\ readme' = [made |-> TRUE,
                functions |-> DocFunctions(gen.endpoints, 1),
                unimplemented |-> DocUnimplemented(gen.incompleteEndpoints)]
  /\ UNCHANGED <<cache, conv, gen, svc, disp, pipe, inv, js>>

\* generator.generateJsCode(jsCodePath): the tools of the valid endpoints;
\* nothing is written without a valid endpoint or when fs.writeFile fails
generateJsCode ==
  /\ gen.made
  /\ \E writeOk \in BOOLEAN :
       LET tools == ToolCodes(gen.endpoints, 1)
       IN js' = IF Len(tools) > 0 /\ writeOk
                THEN [NoCode EXCEPT !.made = TRUE, !.returned = "true", !.tools = tools]
                ELSE [NoCode EXCEPT !.returned = "false"]
  /\ UNCHANGED <<cache, conv, gen, svc, readme, disp, pipe, inv>>

\* an MCP client calls tool i of the emitted server with params
CallTool ==
  /\ js.made
  /\ \E i \in 1..Len(js.tools) :
       \E params \in ToolArguments(js.tools[i].schema, 1) :
         js' = [js EXCEPT !.called = i, !.args = O(params),
                          !.request = ToolRequest(js.tools[i], O(params))]
  /\ UNCHANGED <<cache, conv, gen, svc, readme, disp, pipe, inv>>

\* parseDocument(inputPath, formatType) up to its first parser.parse call.
\* head, body: the outcomes of the reads detectFormat makes when formatType is
\* 'auto'. A tag that is not in parserMap becomes 'crawler', the parser is
\* made and its parse is called. Calls share no state, so a behaviour holds
\* one call.
parseDocument(inputPath, declared, head, body) ==
  LET detection == IF declared = "auto" THEN parsers_detectFormat(inputPath, head, body)
                   ELSE Returns(S(declared))
      detected == detection.value[2]
      formatType == IF detected \in DOMAIN parserMap \cup InheritedKeys THEN detected
                    ELSE "crawler"
      call == [NoParse EXCEPT !.inputPath = inputPath, !.declared = declared,
                              !.head = head, !.body = body]
  IN /\ disp.pc = "idle"
     /\ disp' = IF detection.raised
                THEN \* the await of detectFormat is outside the try
                     [call EXCEPT !.pc = "raised",
                                  !.error = [name |-> detection.error, by |-> 0]]
                ELSE IF ParserClassOf(formatType) = "toString"
                THEN \* `new` of what is not a constructor throws before the try
                     [call EXCEPT !.pc = "raised", !.formatType = formatType,
                                  !.error = [name |-> "TypeError", by |-> 0]]
                ELSE [call EXCEPT !.pc = "primary", !.formatType = formatType,
                                  !.detected = IF declared = "auto" THEN detection.value
                                               ELSE Undefined,
                                  !.calls = <<ParserClassOf(formatType)>>]
     /\ UNCHANGED <<cache, conv, gen, svc, readme, pipe, inv, js>>

ParseStart ==
  \E inputPath \in InputPaths :
    \/ \E declared \in FormatTypes \ {"auto"} :
         parseDocument(inputPath, declared, NotRead, NotRead)
    \/ \E head \in (IF ReadsHead(inputPath) THEN HeadOutcomes ELSE {NotRead}) :
         \E body \in (IF ReadsBody(inputPath, head) THEN IoOutcomes(inputPath)
                      ELSE {NotRead}) :
           parseDocument(inputPath, "auto", head, body)

\* `await parser.parse(inputPath)` of the primary parser completes
PrimaryCompletes ==
  /\ disp.pc = "primary"
  /\ \E io \in ReadOutcomes(disp.calls[1], disp.inputPath) :
       LET outcome == Parse(disp.calls[1], disp.inputPath, io)
           done == [disp EXCEPT !.outcomes = Append(@, outcome)]
       IN disp' =
            IF outcome.raised
            THEN (IF disp.formatType # "crawler"
                  THEN [done EXCEPT !.pc = "recovery",
                                    !.error = [name |-> outcome.error, by |-> 1],
                                    !.calls = Append(@, "CrawlerParser")]
                  ELSE [done EXCEPT !.pc = "raised",
                                    !.error = [name |-> outcome.error, by |-> 1]])
            ELSE IF IsUsable(outcome.value)
            THEN [done EXCEPT !.pc = "returned", !.result = outcome.value,
                              !.out = outcome.value]
            ELSE IF disp.formatType # "crawler"
            THEN [done EXCEPT !.pc = "fallback", !.result = outcome.value,
                              !.calls = Append(@, "CrawlerParser")]
            ELSE [done EXCEPT !.pc = "returned", !.result = outcome.value,
                              !.out = outcome.value]
  /\ UNCHANGED <<cache, conv, gen, svc, readme, pipe, inv, js>>

\* `await crawler.parse(inputPath)` of the empty-result branch completes; what
\* it throws is caught by the catch of the enclosing try, which tries the
\* crawler
FallbackCompletes ==
  /\ disp.pc = "fallback"
  /\ \E io \in ReadOutcomes("CrawlerParser", disp.inputPath) :
       LET outcome == Parse("CrawlerParser", disp.inputPath, io)
           done == [disp EXCEPT !.outcomes = Append(@, outcome)]
       IN disp' =
            IF outcome.raised
            THEN [done EXCEPT !.pc = "recovery",
                              !.error = [name |-> outcome.error, by |-> Len(disp.calls)],
                              !.calls = Append(@, "CrawlerParser")]
            ELSE IF IsCrawlerSuccess(outcome.value)
            THEN [done EXCEPT !.pc = "returned", !.out = outcome.value]
            ELSE [done EXCEPT !.pc = "returned", !.out = disp.result]
  /\ UNCHANGED <<cache, conv, gen, svc, readme, pipe, inv, js>>

\* a catch block that lets the error of its own crawler escape
RecoveryCompletes_ThrowsCrawlerError ==
  /\ disp.pc = "recovery"
  /\ \E io \in ReadOutcomes("CrawlerParser", disp.inputPath) :
       LET outcome == Parse("CrawlerParser", disp.inputPath, io)
           done == [disp EXCEPT !.outcomes = Append(@, outcome)]
       IN disp' =
            IF outcome.raised
            THEN [done EXCEPT !.pc = "raised",
                              !.error = [name |-> outcome.error, by |-> Len(disp.calls)]]
            ELSE IF IsCrawlerSuccess(outcome.value)
            THEN [done EXCEPT !.pc = "returned", !.out = outcome.value]
            ELSE [done EXCEPT !.pc = "raised"]
  /\ UNCHANGED <<cache, conv, gen, svc, readme, pipe, inv, js>>

\* `await crawler.parse(inputPath)` of the catch block completes; what it
\* throws is logged, and the caught error is thrown
RecoveryCompletes ==
  /\ disp.pc = "recovery"
  /\ \E io \in ReadOutcomes("CrawlerParser", disp.inputPath) :
       LET outcome == Parse("CrawlerParser", disp.inputPath, io)
           done == [disp EXCEPT !.outcomes = Append(@, outcome)]
       IN disp' =
            IF ~outcome.raised /\ IsCrawlerSuccess(outcome.value)
            THEN [done EXCEPT !.pc = "returned", !.out = outcome.value]
            ELSE [done EXCEPT !.pc = "raised"]
  /\ UNCHANGED <<cache, conv, gen, svc, readme, pipe, inv, js>>

\* the --output directory and the --name values of the CLI
OutputDir == "out"
ServiceNames == {Undefined, S("svc")}

\* s.replace(/\s+/g, '_')
RECURSIVE ReplaceWhitespace(_)
ReplaceWhitespace(s) ==
  IF Len(s) = 0 THEN ""
  ELSE IF CharAt(s, 1) # " " THEN CharAt(s, 1) \o ReplaceWhitespace(SubSeq(s, 2, Len(s)))
  ELSE IF Len(s) > 1 /\ CharAt(s, 2) = " " THEN ReplaceWhitespace(SubSeq(s, 2, Len(s)))
  ELSE "_" \o ReplaceWhitespace(SubSeq(s, 2, Len(s)))

\* _processServiceName(standardFormat, serviceName): the standardFormat it
\* leaves and the output directory it returns
processServiceName(standardFormat, serviceName) ==
  LET title == Get(standardFormat, "title")
  IN IF Truthy(serviceName)
     THEN [standardFormat |->
             IF ~Truthy(title) THEN Put(standardFormat, "title", serviceName)
             ELSE Put(Put(standardFormat, "originalTitle", title), "title", serviceName),
           outputDir |-> OutputDir \o "/" \o StringOf(serviceName)]
     ELSE [standardFormat |-> standardFormat,
           outputDir |-> IF Truthy(title) /\ Tag(title) = "s"
                         THEN OutputDir \o "/" \o toLowerCase(ReplaceWhitespace(title[2]))
                         ELSE OutputDir]

\* the endpointCount loop of _generate over Object.values(paths), from i on
RECURSIVE CountOperations(_, _)
CountOperations(pathItems, i) ==
  IF i > Len(pathItems) THEN 0
  ELSE Cardinality({m \in 1..Len(HttpMethods) : Has(pathItems[i][2], HttpMethods[m])})
         + CountOperations(pathItems, i + 1)

\* the endpointsCount _generate computes after generateMcpService returned;
\* `method in pathObj` throws on a path item that is not an object
GeneratorMetrics(standardFormat) ==
  LET paths == Get(standardFormat, "paths")
      endpoints == Get(standardFormat, "endpoints")
  IN IF Truthy(paths)
     THEN (IF \E i \in 1..Len(Entries(paths)) : ~IsObject(Entries(paths)[i][2])
           THEN Throws("TypeError")
           ELSE Returns(N(CountOperations(Entries(paths), 1))))
     ELSE IF Truthy(endpoints) THEN Returns(N(Len(Elems(endpoints))))
     ELSE Returns(N(0))

\* a CLI that exits with 0 whatever run resolved with
Resolved_ExitsWithZero(run, success, outputDir) ==
  [run EXCEPT !.pc = "done", !.success = success, !.outputDir = outputDir, !.exit = 0]

\* run resolves with [success, outputDir, metrics] and main exits
Resolved(run, success, outputDir) ==
  [run EXCEPT !.pc = "done", !.success = success, !.outputDir = outputDir,
              !.exit = IF success THEN 0 ELSE 1]

\* runPipeline(inputPath, format, outputDir, serviceName) up to the
\* parseDocument call of _parse. A behaviour holds one run: one process, one
\* new MCPPipeline, started on an empty cache directory.
run ==
  /\ pipe.pc = "idle"
  /\ \E serviceName \in ServiceNames :
       pipe' = [NoRun EXCEPT !.pc = "parse", !.serviceName = serviceName]
  /\ UNCHANGED <<cache, conv, gen, svc, readme, disp, inv, js>>

\* the parse stage is parseDocument
PipelineParse ==
  /\ pipe.pc = "parse"
  /\ ParseStart \/ PrimaryCompletes \/ FallbackCompletes \/ RecoveryCompletes

\* _parse returns: what parseDocument threw is caught and gives null; nothing
\* parsed ends the run
ParseReturns ==
  /\ pipe.pc = "parse"
  /\ disp.pc \in {"returned", "raised"}
  /\ LET apiData == IF disp.pc = "raised" THEN Null ELSE disp.out
         parsed == [pipe EXCEPT !.apiData = apiData, !.metrics.parseTime = TRUE,
                                !.caught = IF disp.pc = "raised" THEN "parse" ELSE ""]
     IN pipe' = IF ~Truthy(apiData) THEN Resolved(parsed, FALSE, Null)
                ELSE [parsed EXCEPT !.pc = "convert", !.convN = conv.n]
  /\ UNCHANGED <<cache, conv, gen, svc, readme, disp, inv, js>>

\* the convert stage is convertToStandardFormat(apiData)
PipelineConvert ==
  /\ pipe.pc = "convert"
  /\ conv.n = pipe.convN
  /\ \E readOk, writeOk \in BOOLEAN : convertToStandardFormat(pipe.apiData, readOk, writeOk)

\* _convert returns: null ends the run, anything else goes through
\* _processServiceName to the generate stage
ConvertReturns ==
  /\ pipe.pc = "convert"
  /\ conv.n = pipe.convN + 1
  /\ LET converted == [pipe EXCEPT !.metrics.convertTime = TRUE]
         named == processServiceName(conv.result, pipe.serviceName)
     IN pipe' = IF ~Truthy(conv.result) THEN Resolved(converted, FALSE, Null)
                ELSE [converted EXCEPT !.pc = "generate",
                                       !.standardFormat = named.standardFormat,
                                       !.outputDir = S(named.outputDir)]
  /\ UNCHANGED <<cache, conv, gen, svc, readme, disp, inv, js>>

\* generateMcpService(standardFormat, outputDir): the directory exists, the
\* generator is made
PipelineNewGenerator ==
  /\ pipe.pc = "generate"
  /\ ~gen.made
  /\ gen' = MCPGenerator(pipe.standardFormat)
  /\ UNCHANGED <<cache, conv, svc, readme, disp, pipe, inv, js>>

\* its one generator.generate() call
PipelineGenerate == pipe.pc = "generate" /\ gen.calls = 0 /\ generate

\* its generateJsCode call, after mcp-service.json was written
PipelineJsCode ==
  /\ pipe.pc = "generate"
  /\ svc.made
  /\ Len(svc.functions) > 0
  /\ js.returned = "none"
  /\ generateJsCode

\* its generateDocumentation call
PipelineDocumentation ==
  /\ pipe.pc = "generate"
  /\ js.returned # "none"
  /\ ~readme.made
  /\ generateDocumentation

\* generateMcpService throws (fs.ensureDir, the fs.writeJson of
\* mcp-service.json or the fs.writeFile of README.md fails): _generate
\* catches and gives [false, {}]
GenerateRaises ==
  /\ pipe.pc = "generate"
  /\ ~gen.made \/ (svc.made /\ Len(svc.functions) > 0)
  /\ pipe' = Resolved([pipe EXCEPT !.caught = "generate",
                                   !.metrics.generateTime = TRUE,
                                   !.metrics.totalTime = TRUE],
                      FALSE, pipe.outputDir)
  /\ UNCHANGED <<cache, conv, gen, svc, readme, disp, inv, js>>

\* generateMcpService returns: false without a function, true after the
\* files were written; _generate counts the operations of standardFormat
GenerateReturns ==
  /\ pipe.pc = "generate"
  /\ svc.made
  /\ Len(svc.functions) = 0 \/ readme.made
  /\ LET counted == GeneratorMetrics(pipe.standardFormat)
         success == ~counted.raised /\ Len(svc.functions) > 0
         generated == [pipe EXCEPT !.metrics.generateTime = TRUE,
                                   !.metrics.totalTime = TRUE]
     IN pipe' = Resolved(IF counted.raised THEN [generated EXCEPT !.caught = "generate"]
                         ELSE [generated EXCEPT !.metrics.endpointsCount = counted.value[2],
                                                !.metrics.incompleteEndpoints = 0],
                         success, pipe.outputDir)
  /\ UNCHANGED <<cache, conv, gen, svc, readme, disp, inv, js>>

\* two processes that run the pipeline on the same cache directory
Invocations == {1, 2}

\* an invocation outside convertToStandardFormat; seen is what its last look
\* at a cache file found
NoInvocation ==
  [pc |-> "idle", key |-> <<"none">>, spec |-> Undefined, src |-> Undefined, seen |-> "none"]

\* the cache file of cacheKey as another process finds it: fs.writeJson opens
\* the file itself for writing, which truncates it, and then writes the text,
\* so the file of a write in progress holds a part of the text
CacheFile(cacheKey) ==
  IF \E p \in Invocations : inv[p].pc = "writing" /\ inv[p].key = cacheKey
  THEN <<"partial">>
  ELSE IF cacheKey \in DOMAIN cache THEN <<"complete", cache[cacheKey].spec>>
  ELSE <<"none">>

\* a readJson that returns what it could read of a partial text
readJson_ReturnsPartialText(file, readOk) ==
  IF file[1] = "partial" THEN Returns(O(<<>>))
  ELSE IF ~readOk THEN Throws("EIO")
  ELSE Returns(file[2])

\* fs.readJson(cacheFile): a part of a JSON text does not parse
readJson(file, readOk) ==
  IF file[1] = "partial" THEN Throws("SyntaxError")
  ELSE IF ~readOk THEN Throws("EIO")
  ELSE Returns(file[2])

\* convertToStandardFormat(apiData) of invocation p, up to the call of
\* fs.writeJson: the cache lookup, and on a miss the conversion
InvocationConverts(p, apiData, readOk) ==
  /\ inv[p].pc = "idle"
  /\ conv.n < MaxConversions
  /\ IF ~Truthy(apiData)
     THEN /\ conv' = [NoCall EXCEPT !.doc = apiData, !.result = Null, !.n = conv.n + 1]
          /\ UNCHANGED inv
     ELSE LET cacheKey == generateCacheKey(apiData)
              file == CacheFile(cacheKey)
              dataFormat == detectFormat(apiData)
              result == convertByFormat(dataFormat, apiData)
          IN IF file[1] # "none" /\ ~readJson(file, readOk).raised
             THEN /\ conv' = [doc |-> apiData, key |-> cacheKey, hit |-> TRUE,
                              format |-> "none", result |-> readJson(file, readOk).value,
                              n |-> conv.n + 1]
                  /\ inv' = [inv EXCEPT ![p].seen = file[1]]
             ELSE /\ conv' = [doc |-> apiData, key |-> cacheKey, hit |-> FALSE,
                              format |-> dataFormat, result |-> result, n |-> conv.n + 1]
                  /\ inv' = [inv EXCEPT ![p] =
                               IF validateOpenapi(result)
                               THEN [pc |-> "writing", key |-> cacheKey, spec |-> result,
                                     src |-> apiData, seen |-> file[1]]
                               ELSE [NoInvocation EXCEPT !.seen = file[1]]]
  /\ UNCHANGED <<cache, gen, svc, readme, disp, pipe, js>>

\* the documents the two invocations convert: two that are cached, one whose
\* result is not valid, and null
ConcurrentDocuments == {ScenarioA, ScenarioB, OpenapiDoc("3.1", "Users", UsersPaths), Null}

InvocationStarts ==
  \E p \in Invocations, d \in ConcurrentDocuments, readOk \in BOOLEAN :
    InvocationConverts(p, d, readOk)

\* the fs.writeJson of invocation p completes: the file holds the whole text
WriteCompletes ==
  \E p \in Invocations :
    /\ inv[p].pc = "writing"
    /\ cache' = [k \in DOMAIN cache \cup {inv[p].key} |->
                   IF k = inv[p].key THEN [spec |-> inv[p].spec, src |-> inv[p].src]
                   ELSE cache[k]]
    /\ inv' = [inv EXCEPT ![p].pc = "idle"]
    /\ UNCHANGED <<conv, gen, svc, readme, disp, pipe, js>>

Init ==
  /\ cache = <<>>
  /\ conv = NoCall
  /\ gen = NoGenerator
  /\ svc = NoService
  /\ readme = NoReadme
  /\ disp = NoParse
  /\ pipe = NoRun
  /\ inv = [p \in Invocations |-> NoInvocation]
  /\ js = NoCode

\* Normalizer then Compiler, as the pipeline chains them
Next == Convert \/ NewGenerator \/ generate \/ generateDocumentation

Spec == Init /\ [][Next]_vars

\* the Compiler alone, on endpoint lists
NextCompiler ==
  NewGeneratorFromEndpoints \/ generate \/ generateJsCode \/ generateDocumentation

SpecCompiler == Init /\ [][NextCompiler]_vars

\* the Normalizer alone
NextNormalizer == Convert

SpecNormalizer == Init /\ [][NextNormalizer]_vars

\* the Dispatcher alone
NextDispatcher == ParseStart \/ PrimaryCompletes \/ FallbackCompletes \/ RecoveryCompletes

SpecDispatcher == Init /\ [][NextDispatcher]_vars

\* the pipeline: parse, convert, generate, and the exit of the CLI
NextPipeline ==
  \/ run
  \/ PipelineParse
  \/ ParseReturns
  \/ PipelineConvert
  \/ ConvertReturns
  \/ PipelineNewGenerator
  \/ PipelineGenerate
  \/ PipelineJsCode
  \/ PipelineDocumentation
  \/ GenerateRaises
  \/ GenerateReturns

SpecPipeline == Init /\ [][NextPipeline]_vars

\* the Compiler and the calls of the tools of the server it emits
NextServer == NewGeneratorFromEndpoints \/ generateJsCode \/ CallTool

SpecServer == Init /\ [][NextServer]_vars

\* two invocations on one cache directory
NextConcurrent == InvocationStarts \/ WriteCompletes

SpecConcurrent == Init /\ [][NextConcurrent]_vars

----------------------------------------------------------------------------
(* Claims                                                                  *)

\* the structural invariant of a NormalizedSpec (section 3 of the specification)
C10_IsNormalizedSpec(doc) ==
  /\ Tag(doc) = "o"
  /\ Tag(Get(doc, "openapi")) = "s"
  /\ MatchesVersion3(Get(doc, "openapi")[2])
  /\ Truthy(Get(Get(doc, "info"), "title"))
  /\ Truthy(Get(Get(doc, "info"), "version"))
  /\ Has(doc, "paths")

\* the endpoints generate() accepts, and those it rejects, in list order
C4_CompleteEndpoints(endpoints) == SelectSeq(endpoints, LAMBDA e : validateEndpoint(e))
C4_IncompleteEndpoints(endpoints) == SelectSeq(endpoints, LAMBDA e : ~validateEndpoint(e))

\* C1: two raw documents that differ in any field never get the same cache
\* key, so a call on document D is never served the NormalizedSpec cached for
\* a different document: the entry found under the key of the last call was
\* made from the document of that call.
C1_ChangedDocumentChangesKey ==
  \A k \in DOMAIN cache : conv.key = k => cache[k].src = conv.doc

\* C4: after one generate() call on a fresh MCPGenerator every endpoint is in
\* exactly one output: the functions are those of the complete endpoints, in
\* order, and incompleteEndpoints holds the incomplete ones, in order.
C4_GeneratePartitionsEndpoints ==
  (svc.made /\ gen.calls = 1) =>
    /\ Len(svc.functions) + Len(gen.incompleteEndpoints) = Len(gen.endpoints)
    /\ gen.incompleteEndpoints = C4_IncompleteEndpoints(gen.endpoints)
    /\ svc.functions = [i \in 1..Len(C4_CompleteEndpoints(gen.endpoints)) |->
                          createFunction(C4_CompleteEndpoints(gen.endpoints)[i])]

\* a list with a complete endpoint after an incomplete one was compiled
C4_Witness ==
  /\ svc.made /\ gen.calls = 1
  /\ Len(gen.endpoints) = 2
  /\ ~validateEndpoint(gen.endpoints[1])
  /\ validateEndpoint(gen.endpoints[2])
  /\ Len(svc.functions) = 1
  /\ gen.incompleteEndpoints = <<gen.endpoints[1]>>

\* the four checks, each on its own
C5_PathFails(e) == ~Truthy(Get(e, "path"))
C5_MethodFails(e) ==
  \/ ~Truthy(Get(e, "method"))
  \/ toLowerCase(StringOf(Get(e, "method")))
       \notin {"get", "post", "put", "delete", "patch", "options", "head"}
C5_OperationIdFails(e) == ~Truthy(Get(e, "operationId")) /\ ~Truthy(Get(e, "path"))
C5_ParametersFail(e) ==
  \E i \in 1..Len(Elems(Get(e, "parameters"))) :
    LET param == Elems(Get(e, "parameters"))[i]
    IN Get(param, "name") \in {Undefined, S("")} \/ Get(param, "in") \in {Undefined, S("")}

C5_FirstFailingReason(e) ==
  CASE C5_PathFails(e) -> "Missing path"
    [] ~C5_PathFails(e) /\ C5_MethodFails(e) -> "Invalid or missing HTTP method"
    [] ~C5_PathFails(e) /\ ~C5_MethodFails(e) /\ C5_OperationIdFails(e) ->
         "Missing operationId and insufficient info to generate one"
    [] ~C5_PathFails(e) /\ ~C5_MethodFails(e) /\ ~C5_OperationIdFails(e)
         /\ C5_ParametersFail(e) ->
         "Invalid parameter definition (missing name or location)"
    [] OTHER -> "Unknown incompleteness reason"

\* C5: validateEndpoint(e) is false iff getIncompletenessReason(e) is not the
\* 'Unknown' reason, the reason is that of the first failing check in the order
\* path, method, operationId, parameters, and the reason written to the
\* documentation for an endpoint is the one a further call returns.
C5_ValidateAgreesWithReason ==
  /\ \A i \in 1..Len(gen.endpoints) :
       /\ ~validateEndpoint(gen.endpoints[i])
            <=> getIncompletenessReason(gen.endpoints[i]) # "Unknown incompleteness reason"
       /\ getIncompletenessReason(gen.endpoints[i]) = C5_FirstFailingReason(gen.endpoints[i])
  /\ \A i \in 1..Len(readme.unimplemented) :
       /\ readme.unimplemented[i].reason
            = getIncompletenessReason(gen.incompleteEndpoints[i])
       /\ readme.unimplemented[i].reason # "Unknown incompleteness reason"

\* an endpoint whose method and parameters both fail was documented with the
\* reason of the method
C5_Witness ==
  /\ readme.made
  /\ \E i \in 1..Len(gen.incompleteEndpoints) :
       /\ C5_MethodFails(gen.incompleteEndpoints[i])
       /\ C5_ParametersFail(gen.incompleteEndpoints[i])
       /\ readme.unimplemented[i].reason = "Invalid or missing HTTP method"

\* the <<path, method>> of the operations of a raw document (a paths operation
\* or an entry of a custom endpoints array) that have a valid path and method
\* and a parameter without `in`
C6_MissingLocation(doc) ==
  LET lacksIn(parameters) ==
        \E i \in 1..Len(Elems(parameters)) : ~Has(Elems(parameters)[i], "in")
      paths == Get(doc, "paths")
      endpoints == Elems(Get(doc, "endpoints"))
  IN IF Has(doc, "openapi") \/ Has(doc, "swagger")
     THEN {pm \in ObjectKeys(paths) \X {HttpMethods[m] : m \in 1..Len(HttpMethods)} :
             /\ Has(Get(paths, pm[1]), pm[2])
             /\ lacksIn(Get(Get(Get(paths, pm[1]), pm[2]), "parameters"))}
     ELSE {<<StringOf(Get(endpoints[i], "path")), toLowerCase(StringOf(Get(endpoints[i], "method")))>> :
             i \in {j \in 1..Len(endpoints) :
                      /\ ~C5_PathFails(endpoints[j])
                      /\ ~C5_MethodFails(endpoints[j])
                      /\ lacksIn(Get(endpoints[j], "parameters"))}}

\* C6: end to end, an endpoint with a valid path and method that has a
\* parameter missing `in` is excluded from functions and is in
\* incompleteEndpoints with the reason 'Invalid parameter definition (missing
\* name or location)', whether it arrived as a paths operation or as an entry
\* of a custom {endpoints} document (stated for conversions not served from
\* the cache).
C6_MissingLocationIsReported ==
  (svc.made /\ gen.calls = 1 /\ ~conv.hit /\ Tag(conv.doc) = "o") =>
    \A pm \in C6_MissingLocation(conv.doc) :
      \E i \in 1..Len(gen.endpoints) :
        /\ Get(gen.endpoints[i], "path") = S(pm[1])
        /\ Get(gen.endpoints[i], "method") = S(pm[2])
        /\ \A f \in 1..Len(svc.functions) : svc.functions[f] # createFunction(gen.endpoints[i])
        /\ \E j \in 1..Len(gen.incompleteEndpoints) :
             /\ gen.incompleteEndpoints[j] = gen.endpoints[i]
             /\ getIncompletenessReason(gen.incompleteEndpoints[j])
                  = "Invalid parameter definition (missing name or location)"

\* the type the parameter map shows for a schema type
C8_TypeShown(v) ==
  LET t == IF Tag(v) = "s" /\ v[2] # "" THEN v[2] ELSE "string"
  IN IF t \in {"integer", "number"} THEN "number"
     ELSE IF t \in {"boolean", "array", "object"} THEN t
     ELSE "string"

\* C7: for the document of scenario A the generated service has exactly one
\* function, named getUsers, whose parameter map gives id the type 'number'
\* and required true, with no incomplete endpoint; and in general the type of
\* a declared path parameter's schema is the type its entry of the map shows.
C7_PathParameterShowsDeclaredType ==
  (svc.made /\ gen.calls = 1) =>
    /\ (conv.doc = ScenarioA /\ ~conv.hit) =>
         /\ Len(svc.functions) = 1
         /\ Get(svc.functions[1], "name") = S("getUsers")
         /\ Get(Get(Get(svc.functions[1], "parameters"), "id"), "type") = S("number")
         /\ Get(Get(Get(svc.functions[1], "parameters"), "id"), "required") = B(TRUE)
         /\ gen.incompleteEndpoints = <<>>
    /\ \A i \in 1..Len(svc.functions) :
         LET e == C4_CompleteEndpoints(gen.endpoints)[i]
             declared == Elems(Get(e, "parameters"))
             shown == Get(svc.functions[i], "parameters")
         IN \A k \in 1..Len(declared) :
              (Get(declared[k], "in") = S("path") /\ Has(shown, StringOf(Get(declared[k], "name"))))
                => Get(Get(shown, StringOf(Get(declared[k], "name"))), "type")
                     = S(C8_TypeShown(Get(Get(declared[k], "schema"), "type")))

\* the three sources of the parameter map of endpoint e
C8_PathNames(e) ==
  LET path == StringOf(Get(e, "path"))
      tokens == ParamTokens(path, 1)
  IN {SubSeq(path, tokens[t][1] + 1, tokens[t][2] - 1) : t \in 1..Len(tokens)}

C8_Declared(e) ==
  SelectSeq(Elems(Get(e, "parameters")),
            LAMBDA q : /\ Get(q, "in") # S("path")
                       /\ ~(Get(q, "in") = S("body") /\ Truthy(Get(e, "requestBody"))))

C8_BodyProperties(e) == Get(Get(Get(e, "requestBody"), "schema"), "properties")

\* what the map must show for name n: the body property if there is one, else
\* the last declared parameter of that name, else the path token
C8_Expected(e, n) ==
  LET declared == C8_Declared(e)
      props == C8_BodyProperties(e)
      required == Elems(Get(Get(Get(e, "requestBody"), "schema"), "required"))
      last == CHOOSE k \in 1..Len(declared) :
                /\ Get(declared[k], "name") = S(n)
                /\ \A j \in (k + 1)..Len(declared) : Get(declared[j], "name") # S(n)
  IN IF Has(props, n)
     THEN [type |-> C8_TypeShown(Get(Get(props, n), "type")),
           required |-> \E j \in 1..Len(required) : required[j] = S(n)]
     ELSE IF \E k \in 1..Len(declared) : Get(declared[k], "name") = S(n)
     THEN [type |-> C8_TypeShown(Get(Get(declared[last], "schema"), "type")),
           required |-> Get(declared[last], "required") = B(TRUE)]
     ELSE [type |-> "string", required |-> TRUE]

\* C8: the parameter map of a function is the merge of (1) the {name} tokens
\* of the path, required and of type 'string', (2) the declared parameters
\* that are not in the path, nor in the body when the endpoint has a
\* requestBody, (3) the properties of requestBody.schema, required iff listed
\* in schema.required, integer shown as 'number'; a later source overwrites an
\* earlier entry of the same name.
C8_ParameterMapIsThreePassMerge ==
  (svc.made /\ gen.calls = 1) =>
    \A i \in 1..Len(svc.functions) :
      LET e == C4_CompleteEndpoints(gen.endpoints)[i]
          shown == Get(svc.functions[i], "parameters")
          declared == C8_Declared(e)
      IN /\ ObjectKeys(shown)
              = C8_PathNames(e)
                  \cup {StringOf(Get(declared[k], "name")) : k \in 1..Len(declared)}
                  \cup ObjectKeys(C8_BodyProperties(e))
         /\ \A n \in ObjectKeys(shown) :
              /\ Get(Get(shown, n), "type") = S(C8_Expected(e, n).type)
              /\ Get(Get(shown, n), "required") = B(C8_Expected(e, n).required)

\* the Swagger POST /orders of scenario B was converted and compiled, and its
\* function shows qty as a required number
C8_Witness ==
  /\ svc.made /\ gen.calls = 1
  /\ conv.doc = ScenarioB /\ conv.format = "swagger"
  /\ Len(svc.functions) = 1
  /\ Get(svc.functions[1], "name") = S("postOrders")
  /\ Get(Get(svc.functions[1], "parameters"), "qty")
       = O(<< <<"type", S("number")>>,
              <<"description", S("Request body property: qty")>>,
              <<"required", B(TRUE)>> >>)

\* the operations of a Swagger document, as <<path, method>>
C9_Operations(doc) ==
  {pm \in ObjectKeys(Get(doc, "paths")) \X {HttpMethods[m] : m \in 1..Len(HttpMethods)} :
     Has(Get(Get(doc, "paths"), pm[1]), pm[2])}

C9_IsBody(param) == Get(param, "in") = S("body")

\* C9: for every operation of a Swagger 2.0 document that has a body
\* parameter, the converted operation has no `in: body` parameter left, its
\* requestBody.content['application/json'].schema is the body parameter's
\* schema ({} when it has none), and the other parameters remain, unchanged
\* and in their order.
C9_BodyParameterBecomesRequestBody ==
  (conv.n > 0 /\ conv.format = "swagger") =>
    \A pm \in C9_Operations(conv.doc) :
      LET params == Elems(Get(Get(Get(Get(conv.doc, "paths"), pm[1]), pm[2]), "parameters"))
          out == Get(Get(Get(conv.result, "paths"), pm[1]), pm[2])
          outParams == Elems(Get(out, "parameters"))
      IN (\E i \in 1..Len(params) : C9_IsBody(params[i])) =>
           /\ \A j \in 1..Len(outParams) : ~C9_IsBody(outParams[j])
           /\ \A i \in 1..Len(params) :
                C9_IsBody(params[i]) =>
                  Get(Get(Get(Get(out, "requestBody"), "content"), "application/json"), "schema")
                    = (IF Has(params[i], "schema") THEN Get(params[i], "schema") ELSE O(<<>>))
           /\ outParams = SelectSeq(params, LAMBDA q : ~C9_IsBody(q))

\* a Swagger operation with a body parameter between two other parameters was
\* converted: its two other parameters are left
C9_Witness ==
  /\ conv.format = "swagger"
  /\ \E pm \in C9_Operations(conv.doc) :
       LET params == Elems(Get(Get(Get(Get(conv.doc, "paths"), pm[1]), pm[2]), "parameters"))
           out == Get(Get(Get(conv.result, "paths"), pm[1]), pm[2])
       IN /\ Len(params) = 3
          /\ C9_IsBody(params[2])
          /\ Elems(Get(out, "parameters")) = <<params[1], params[3]>>
          /\ Has(out, "requestBody")

\* C10: for every valid NormalizedSpec S, whatever the cache holds from earlier
\* conversions of other documents, the Normalizer classifies S as 'openapi'
\* and convertToStandardFormat(S) returns a spec equal to S.
C10_ValidSpecConvertsToItself ==
  (conv.n > 0 /\ C10_IsNormalizedSpec(conv.doc)) =>
    /\ detectFormat(conv.doc) = "openapi"
    /\ conv.result = conv.doc

\* C2: when the resolved format tag is not 'crawler' and the primary parser
\* raises E, the crawler parser is tried as recovery; if the crawler raises too,
\* or returns a result without a non-empty paths, parseDocument raises E, the
\* error of the primary parser, never the crawler's.
C2_RecoveryReraisesPrimaryError ==
  (/\ disp.pc \in {"returned", "raised"}
   /\ disp.formatType # "crawler"
   /\ Len(disp.outcomes) >= 1
   /\ disp.outcomes[1].raised) =>
    /\ disp.calls = <<disp.calls[1], "CrawlerParser">>
    /\ Len(disp.outcomes) = 2
    /\ (\/ disp.outcomes[2].raised
        \/ ~Has(disp.outcomes[2].value, "paths")
        \/ ObjectKeys(Get(disp.outcomes[2].value, "paths")) = {}) =>
         /\ disp.pc = "raised"
         /\ disp.error = [name |-> disp.outcomes[1].error, by |-> 1]

\* the Swagger parser failed on the text of api.json, the crawler failed to
\* fetch it, and the call raised the SyntaxError
C2_Witness ==
  /\ disp.pc = "raised"
  /\ disp.formatType = "swagger"
  /\ disp.calls = <<"SwaggerParser", "CrawlerParser">>
  /\ Len(disp.outcomes) = 2
  /\ disp.outcomes[1].raised /\ disp.outcomes[1].error = "SyntaxError"
  /\ disp.outcomes[2].raised /\ disp.outcomes[2].error = "AxiosError"
  /\ disp.error = [name |-> "SyntaxError", by |-> 1]

\* C3: in one parseDocument call the crawler fallback is attempted at most once
\* after the primary parser, whether the primary raised or returned an unusable
\* result and whatever the fallback then does, and not at all when the
\* resolved tag is 'crawler'; so a call makes at most two parser invocations.
C3_AtMostOneFallback ==
  /\ Len(disp.calls) <= 2
  /\ Cardinality({i \in 2..Len(disp.calls) : disp.calls[i] = "CrawlerParser"}) <= 1
  /\ disp.formatType = "crawler" => Len(disp.calls) <= 1

\* the cache file of the last call's key holds what a call on the same
\* document wrote
C11_EntryOfLastCall ==
  /\ conv.key \in DOMAIN cache
  /\ cache[conv.key].src = conv.doc

\* C11 as stated: for every raw document D, two consecutive
\* convertToStandardFormat(D) calls return equal specs and the second call is
\* served from the cache entry written by the first.
C11_SecondCallIsCacheHit ==
  [][(conv.n > 0 /\ conv'.n = conv.n + 1 /\ conv'.doc = conv.doc) =>
       /\ conv'.result = conv.result
       /\ conv'.hit
       /\ C11_EntryOfLastCall]_vars

\* C11, amended: when a call on D passed validateOpenapi and its entry is in
\* the cache, the next call on D, if its read of the cache file succeeds,
\* returns an equal spec from that entry, without classification or conversion
\* and without writing; when the key of D has no cache file after the first
\* call, the next call on D converts again, to an equal result.
C11_SecondCallOfCachedDocument ==
  [][\A writeOk \in BOOLEAN :
       (conv.n > 0 /\ convertToStandardFormat(conv.doc, TRUE, writeOk)) =>
         /\ (~conv.hit /\ validateOpenapi(conv.result) /\ C11_EntryOfLastCall) =>
              /\ conv'.hit
              /\ conv'.format = "none"
              /\ conv'.result = conv.result
              /\ cache' = cache
         /\ (Truthy(conv.doc) /\ conv.key \notin DOMAIN cache) =>
              /\ ~conv'.hit
              /\ conv'.result = conv.result]_vars

\* the Swagger document of scenario B was converted and cached by the first
\* call, and the second call was served from that entry
C11_Witness ==
  /\ conv.n = 2
  /\ conv.doc = ScenarioB
  /\ conv.hit
  /\ C11_EntryOfLastCall
  /\ conv.result = convertSwaggerToOpenapi(ScenarioB)
  /\ conv.result # ScenarioB

\* C12: a cache entry is written only by a call whose result passed
\* validateOpenapi: every cache entry satisfies the NormalizedSpec invariant
\* (openapi matches ^3\.\d+\.\d+$, info.title and info.version non-empty, paths
\* present), and a call whose result fails the validation returns that result
\* and leaves the cache unchanged.
C12_CacheHoldsValidSpecsOnly ==
  /\ [](\A k \in DOMAIN cache : C10_IsNormalizedSpec(cache[k].spec))
  /\ [][(conv'.n = conv.n + 1 /\ Truthy(conv'.doc) /\ ~conv'.hit
           /\ ~C10_IsNormalizedSpec(conv'.result)) =>
          /\ cache' = cache
          /\ conv'.result = convertByFormat(conv'.format, conv'.doc)]_vars

\* after a conversion was cached, the document of version '3.1' was returned
\* as it is and no cache file was written for it
C12_Witness ==
  /\ conv.n >= 2
  /\ ~conv.hit
  /\ conv.doc = OpenapiDoc("3.1", "Users", UsersPaths)
  /\ conv.result = conv.doc
  /\ ~validateOpenapi(conv.result)
  /\ cache # <<>>
  /\ conv.key \notin DOMAIN cache

\* C13: convertToStandardFormat returns null only when its input is null or
\* undefined; every other raw document that is not an object, the falsy
\* primitives 0, '' and false included, is returned wrapped in the minimal
\* OpenAPI envelope (openapi 3.0.0, empty paths) with the payload under
\* x-unstructured-data.
C13_OnlyNullAndUndefinedGiveNull ==
  conv.n > 0 =>
    /\ conv.result = Null => conv.doc \in {Null, Undefined}
    /\ (~IsObject(conv.doc) /\ conv.doc \notin {Null, Undefined}) =>
         /\ Get(conv.result, "openapi") = S("3.0.0")
         /\ Get(conv.result, "paths") = O(<<>>)
         /\ Get(conv.result, "x-unstructured-data") = conv.doc

\* what the claim gives for the paths of the endpoint lists: the segments
\* that remain once the {param} tokens are removed, each with its first letter
\* capitalized
C14_Segments(path) ==
  CASE path \in {"/", "/{id}", "/{a}{b}"} -> "Root"
    [] path \in {"/users", "/users/{id}", "//users//", "users"} -> "Users"
    [] path = "/users/{id}/orders" -> "UsersOrders"
    [] path = "/api/v1/user-list" -> "ApiV1User-list"
    [] path = "/Users/{id}.json" -> "Users.json"
    [] path = "/users{id}/x" -> "UsersX"
    [] path = "/1st" -> "1st"
    [] path = "/orders" -> "Orders"
    [] path = "/search" -> "Search"

C14_Method(method) ==
  CASE method \in {"get", "GET"} -> "get"
    [] method \in {"post", "POST"} -> "post"
    [] method \in {"delete", "DELETE"} -> "delete"
    [] method \in {"put", "PUT"} -> "put"

\* C14: generateOperationId is a pure function of (method, path): the
\* lower-cased method followed by the capitalized non-empty segments of the
\* path without its {param} tokens, '<method>Root' when none remains; the
\* function of an endpoint without operationId is named so, and the call that
\* generateDocumentation makes later on the same endpoint gives the same string.
C14_OperationIdOfMethodAndPath ==
  (svc.made /\ gen.calls = 1) =>
    \A i \in 1..Len(svc.functions) :
      LET e == C4_CompleteEndpoints(gen.endpoints)[i]
          expected == C14_Method(Get(e, "method")[2]) \o C14_Segments(Get(e, "path")[2])
      IN ~Truthy(Get(e, "operationId")) =>
           /\ Get(svc.functions[i], "name") = S(expected)
           /\ generateOperationId(e) = expected
           /\ readme.made => readme.functions[i] = S(expected)

\* DELETE /users/{id}/orders was compiled and documented as deleteUsersOrders
C14_Witness ==
  /\ svc.made /\ readme.made
  /\ Len(gen.endpoints) = 1
  /\ Get(gen.endpoints[1], "path") = S("/users/{id}/orders")
  /\ Get(gen.endpoints[1], "method") = S("DELETE")
  /\ Get(svc.functions[1], "name") = S("deleteUsersOrders")
  /\ readme.functions = <<S("deleteUsersOrders")>>

C15_FormatTags == {S("openapi"), S("swagger"), S("markdown"), S("html"), S("crawler")}

\* C15: detectFormat(locator) returns, for every locator and every outcome of
\* the file read, the probe, the body fetch and the JSON/YAML parse, exactly
\* one of openapi, swagger, markdown, html, crawler, and never raises: a call
\* with formatType 'auto' always gets a tag and goes on to call a parser.
C15_DetectFormatReturnsATag ==
  (disp.pc # "idle" /\ disp.declared = "auto") =>
    /\ disp.detected \in C15_FormatTags
    /\ disp.calls # <<>>
    /\ ~(disp.pc = "raised" /\ disp.outcomes = <<>>)

\* the probe of a bare URL declared json, the body fetched was a text, not an
\* object, and detectFormat returned 'crawler'
C15_Witness ==
  /\ disp.pc # "idle"
  /\ disp.declared = "auto"
  /\ disp.inputPath = "https://h/api"
  /\ disp.head.ok /\ disp.head.data = S("application/json; charset=utf-8")
  /\ disp.body.ok /\ disp.body.data = S("Hello")
  /\ disp.detected = S("crawler")

\* C19: parseDocument returns the primary parser's result directly iff it is
\* usable; when it is unusable and the tag is not 'crawler' the crawler is
\* tried, its result is returned only if it is an object with a non-empty
\* paths, and otherwise (the crawler's result is not accepted, or the crawler
\* raises) the primary parser's unusable result is returned, without raising.
C19_UnusableResultIsReturned ==
  (disp.pc \in {"returned", "raised"} /\ disp.outcomes # <<>> /\ ~disp.outcomes[1].raised) =>
    LET primary == disp.outcomes[1].value
    IN IF IsUsable(primary)
       THEN disp.pc = "returned" /\ disp.out = primary /\ Len(disp.outcomes) = 1
       ELSE IF disp.formatType = "crawler"
       THEN disp.pc = "returned" /\ disp.out = primary
       ELSE /\ Len(disp.outcomes) >= 2
            /\ disp.pc = "returned"
            /\ disp.out = IF ~disp.outcomes[2].raised /\ IsCrawlerSuccess(disp.outcomes[2].value)
                          THEN disp.outcomes[2].value
                          ELSE primary

\* the content type of a probe's response: headers['content-type'] || ''
C20_ContentType(head) == StringOf(Or(head.data, S("")))

\* C20: for a bare URL without a recognized extension, a failed probe gives
\* 'crawler'; a json content type gives swagger when the body fetched has
\* swagger === '2.0' and openapi in every other case, a failed fetch and a
\* body that cannot be inspected included; text/html gives html,
\* text/markdown gives markdown, any other content type gives 'crawler'.
C20_BareUrlJsonDefaultsToOpenapi ==
  (disp.pc # "idle" /\ disp.declared = "auto" /\ ReadsHead(disp.inputPath)) =>
    disp.detected =
      IF ~disp.head.ok THEN S("crawler")
      ELSE IF Includes(C20_ContentType(disp.head), "json")
      THEN (IF disp.body.ok /\ Get(disp.body.data, "swagger") = S("2.0")
            THEN S("swagger") ELSE S("openapi"))
      ELSE IF Includes(C20_ContentType(disp.head), "text/html") THEN S("html")
      ELSE IF Includes(C20_ContentType(disp.head), "text/markdown") THEN S("markdown")
      ELSE S("crawler")

\* the stage at which a resolved run stopped short of a compiled endpoint
C16_ParseFailed == disp.pc = "raised" \/ ~Truthy(disp.out)
C16_ConvertFailed == ~C16_ParseFailed /\ ~Truthy(conv.result)
C16_NoEndpoints == ~C16_ParseFailed /\ ~C16_ConvertFailed /\ Len(svc.functions) = 0

C18_EndpointsCountIsFunctionCount ==
  (pipe.pc = "done" /\ pipe.success) =>
    pipe.metrics.endpointsCount = Len(svc.functions)

\* C17: the cache file of a key is written atomically: an invocation that
\* looks at the file of key k while another invocation writes it finds no
\* file or the complete NormalizedSpec, never a partially written file.
C17_ReaderNeverSeesPartialFile ==
  \A p \in Invocations : inv[p].seen # "partial"

\* C30: a failure of the crawler fallback is swallowed: when parseDocument
\* raises for a tag other than 'crawler' after a parser was called, the error
\* is the one the primary parser raised; a primary parser that returned,
\* even an unusable result, never leads to a raise.
C30_OnlyPrimaryErrorsAreRaised ==
  (disp.pc = "raised" /\ disp.formatType # "crawler" /\ disp.outcomes # <<>>) =>
    /\ disp.outcomes[1].raised
    /\ disp.error = [name |-> disp.outcomes[1].error, by |-> 1]

\* C27: a cache file that exists but cannot be read or parsed (the read
\* fails, or another invocation is still writing the file) does not fail
\* convertToStandardFormat and yields no truncated spec: the call classifies
\* and converts, and returns what it returns on a cache miss.
C27_UnreadableEntryFallsThrough ==
  [][\A p \in Invocations, d \in ConcurrentDocuments, readOk \in BOOLEAN :
       LET file == CacheFile(generateCacheKey(d))
       IN (/\ Truthy(d)
           /\ file[1] = "partial" \/ (file[1] = "complete" /\ ~readOk)
           /\ InvocationConverts(p, d, readOk))
          => /\ ~conv'.hit
             /\ conv'.doc = d
             /\ conv'.result = convertByFormat(detectFormat(d), d)]_vars

\* an invocation found the file of another invocation's write in progress,
\* converted the document itself and returned a valid spec
C27_Witness ==
  \E p, q \in Invocations :
    /\ p # q
    /\ inv[q].pc = "writing"
    /\ inv[p].seen = "partial"
    /\ conv.key = inv[q].key
    /\ ~conv.hit
    /\ conv.result = inv[q].spec
    /\ validateOpenapi(conv.result)

\* C28: after any number of generate() calls on one MCPGenerator,
\* incompleteEndpoints holds each invalid endpoint of the endpoint list
\* exactly once, in list order, so the count of unimplemented endpoints and
\* the list written to the documentation are those of the invalid endpoints.
C28_IncompleteEndpointsListedOnce ==
  /\ gen.calls > 0 => gen.incompleteEndpoints = C4_IncompleteEndpoints(gen.endpoints)
  /\ readme.made => Len(readme.unimplemented) = Len(C4_IncompleteEndpoints(gen.endpoints))

\* the endpoint of the tool last called, and its declared query parameters
C23_CalledEndpoint == C4_CompleteEndpoints(gen.endpoints)[js.called]
C23_QueryParameters == ParametersIn(C23_CalledEndpoint, "query")

\* C23: for every valid endpoint, of any HTTP method, the emitted handler
\* puts every declared query parameter it is given into the query map and
\* sends that map with the request, whether the endpoint has a request body
\* or not.
C23_QueryParametersAreSent ==
  js.called > 0 =>
    \A i \in 1..Len(C23_QueryParameters) :
      LET name == StringOf(Get(C23_QueryParameters[i], "name"))
      IN Truthy(Get(js.args, name)) =>
           Get(js.request.params, name) = Get(js.args, name)

\* C24: a required query parameter that is given, even with a falsy value
\* such as 0 or false, is in the query map of a request that has one, and a
\* required property of the request body that is given is in the request
\* body, on every emission path.
C24_RequiredFalsyValuesAreSent ==
  js.called > 0 =>
    /\ js.request.params # Undefined =>
         \A i \in 1..Len(C23_QueryParameters) :
           LET name == StringOf(Get(C23_QueryParameters[i], "name"))
           IN (Truthy(Get(C23_QueryParameters[i], "required")) /\ Get(js.args, name) # Undefined)
                => Get(js.request.params, name) = Get(js.args, name)
    /\ js.request.data # Undefined =>
         LET schema == Get(Get(C23_CalledEndpoint, "requestBody"), "schema")
             required == Elems(Get(schema, "required"))
         IN \A i \in 1..Len(required) :
              Get(js.args, StringOf(required[i])) # Undefined
                => Get(js.request.data, StringOf(required[i]))
                     = Get(js.args, StringOf(required[i]))

\* the names of the functions of generate() and of the tools of generateJsCode()
C25_FunctionNames == [i \in 1..Len(svc.functions) |-> Get(svc.functions[i], "name")]
C25_ToolNames == [i \in 1..Len(js.tools) |-> js.tools[i].name]

\* C25: for one Compiler instance the endpoints that become functions in
\* generate(), those emitted as tools by generateJsCode() and those
\* documented under 'Available Functions' are the same, with the same names
\* in the same order, and none of them is among the unimplemented endpoints.
C25_ArtifactsAgreeOnValidity ==
  svc.made =>
    /\ js.returned = "true" => C25_ToolNames = C25_FunctionNames
    /\ js.returned = "false" => (js.tools = <<>> /\ ~js.made)
    /\ (js.returned # "none" /\ Len(svc.functions) = 0) => js.returned = "false"
    /\ readme.made => readme.functions = C25_FunctionNames
    /\ \A i \in 1..Len(gen.incompleteEndpoints) :
         /\ ~validateEndpoint(gen.incompleteEndpoints[i])
         /\ \A j \in 1..Len(C4_CompleteEndpoints(gen.endpoints)) :
              gen.incompleteEndpoints[i] # C4_CompleteEndpoints(gen.endpoints)[j]

\* a list with one valid and one invalid endpoint gave one function, one tool
\* and one documented function of the same name, and one unimplemented endpoint
C25_Witness ==
  /\ svc.made /\ js.made /\ readme.made
  /\ Len(gen.endpoints) = 2
  /\ Len(svc.functions) = 1
  /\ C25_ToolNames = C25_FunctionNames
  /\ readme.functions = C25_FunctionNames
  /\ Len(readme.unimplemented) = 1

\* C29: the names of the functions of one generate() call are pairwise
\* distinct: two different valid endpoints never get the same name.
C29_FunctionNamesAreDistinct ==
  (svc.made /\ gen.calls = 1) =>
    \A i, j \in 1..Len(svc.functions) :
      C4_CompleteEndpoints(gen.endpoints)[i] # C4_CompleteEndpoints(gen.endpoints)[j]
        => Get(svc.functions[i], "name") # Get(svc.functions[j], "name")

\* a parsed document with something in it
C26_NonEmpty(document) ==
  Truthy(document) /\ document # A(<<>>) /\ document # O(<<>>) /\ document # S("")

\* the Normalizer, the Compiler of the run have started
C26_NormalizerStarted == conv.n > 0
C26_CompilerStarted == gen.made

\* C26: within one pipeline run the stages run in the order Parse, Normalize,
\* Compile, each at most once: the Normalizer starts only after parsing
\* returned a non-empty document, the Compiler only after the Normalizer
\* returned a non-null spec, and after a failed stage no later stage runs.
C26_StagesRunInOrder ==
  /\ conv.n <= 1 /\ gen.calls <= 1
  /\ C26_NormalizerStarted => (disp.pc = "returned" /\ C26_NonEmpty(disp.out)
                                 /\ pipe.apiData = disp.out)
  /\ C26_CompilerStarted => (C26_NormalizerStarted /\ Truthy(conv.result))
  /\ pipe.caught = "parse" => ~C26_NormalizerStarted
  /\ (pipe.pc = "done" /\ ~Truthy(pipe.apiData)) => ~C26_NormalizerStarted
  /\ (pipe.pc = "done" /\ ~Truthy(pipe.standardFormat)) => ~C26_CompilerStarted

\* an object that is no OpenAPI 3.x, no Swagger 2.0 and no custom document
C21_Untagged(apiData) ==
  /\ IsObject(apiData)
  /\ ~(Has(apiData, "openapi") /\ Tag(Get(apiData, "openapi")) = "s"
         /\ Len(Get(apiData, "openapi")[2]) >= 2
         /\ SubSeq(Get(apiData, "openapi")[2], 1, 2) = "3.")
  /\ Get(apiData, "swagger") # S("2.0")
  /\ ~IsArray(Get(apiData, "endpoints"))

\* C21: an object that carries none of the format tags is converted by the
\* generic path: info carries its title (or name), its version and its
\* description, and its paths are passed through to the result.
C21_UntaggedObjectKeepsItsPaths ==
  (conv.n > 0 /\ ~conv.hit /\ C21_Untagged(conv.doc)) =>
    /\ conv.result = convertToOpenapiGeneric(conv.doc)
    /\ Has(conv.doc, "name") /\ ~Has(conv.doc, "title")
         => Get(Get(conv.result, "info"), "title") = Get(conv.doc, "name")
    /\ IsObject(Get(conv.doc, "paths")) => Get(conv.result, "paths") = Get(conv.doc, "paths")

\* the operations under the paths of a spec, from path item i on
RECURSIVE C22_Operations(_, _)
C22_Operations(pathItems, i) ==
  IF i > Len(pathItems) THEN 0
  ELSE Len(Keys(pathItems[i][2])) + C22_Operations(pathItems, i + 1)

\* the endpoints of a custom document that have a path
C22_EndpointsWithPath(customData) ==
  Cardinality({i \in 1..Len(Elems(Get(customData, "endpoints"))) :
                 Truthy(Get(Elems(Get(customData, "endpoints"))[i], "path"))})

\* C22: the custom conversion gives one paths[path][method] operation for
\* each endpoint that has a path, and the Compiler built on the result sees
\* each of them; only the endpoints without a path are skipped.
C22_EveryEndpointWithPathIsAnOperation ==
  (conv.n > 0 /\ ~conv.hit /\ conv.format = "custom") =>
    /\ C22_Operations(Entries(Get(conv.result, "paths")), 1) = C22_EndpointsWithPath(conv.doc)
    /\ gen.made => Len(gen.endpoints) = C22_EndpointsWithPath(conv.doc)

====
